---- MODULE Spec2Model ----
(***************************************************************************)
(* A model of the WHOOP MCP server core: the Token Store                   *)
(* (src/src/auth_manager.py, class TokenManager) and the API Access Layer  *)
(* (src/src/whoop_client.py, class WhoopClient).                           *)
(*                                                                         *)
(* Time is counted in whole seconds.  datetime.now() is the variable now,  *)
(* advanced by the Tick actions.  A Fernet ciphertext is the pair of the   *)
(* key it was made with and the plaintext: decryption with another key     *)
(* fails, as Fernet's authentication does.                                 *)
(***************************************************************************)
EXTENDS Integers, Sequences, FiniteSets, TLC

VARIABLES
    now,            \* datetime.now(), seconds
    ticks,          \* number of clock advances so far (bounds the run)
    keyFile,        \* content of ENCRYPTION_KEY_FILE, or NoFile
    tokenFile,      \* content of TOKEN_STORAGE_PATH, or NoFile
    mgrKey,         \* TokenManager.encryption_key of each constructed manager
    ret,            \* the last call: its arguments and result
    lastSaved,      \* the token response of the last completed save_tokens and the
                    \* managers constructed since, while nothing else has written
                    \* the credential file
    cache,          \* WhoopClient.cache: a dict from cache key to entry
    request_count,  \* WhoopClient.request_count
    request_window_start,   \* WhoopClient.request_window_start
    callLog,        \* the instants of the _check_rate_limit calls made so far
    admittedLog,    \* the instants of the calls _check_rate_limit admitted
    stored,         \* for each cache key, the payload and instant of the last
                    \* _save_to_cache since the cache was last cleared
    pending,        \* the _make_request coroutines suspended at the upstream GET
    authCleared,    \* an upstream 401 was handled and nothing was saved since
    keyMode,        \* permission bits of ENCRYPTION_KEY_FILE
    tokenMode       \* permission bits of TOKEN_STORAGE_PATH

tokenVars == <<keyFile, tokenFile, mgrKey, lastSaved, authCleared, keyMode, tokenMode>>
clientVars == <<cache, request_count, request_window_start, callLog, admittedLog,
                stored, pending>>
vars == <<now, ticks, keyFile, tokenFile, mgrKey, ret, lastSaved, cache,
          request_count, request_window_start, callLog, admittedLog, stored, pending,
          authCleared, keyMode, tokenMode>>

----------------------------------------------------------------------------
(* Bounds of the model *)

MaxTicks == 2
MaxCalls == 4                  \* _check_rate_limit calls in one run
MAX_REQUESTS_PER_MINUTE == 2   \* the ceiling N (100 in config.py), scaled down
MaxParams == 3                 \* query parameters of one request
MaxInFlight == 2               \* concurrent _make_request calls
MaxRequests == 3               \* read operations started in one server run
MaxWaits == 1                  \* idle periods between the server's operations

----------------------------------------------------------------------------
(* Program constants *)

BUFFER_SECONDS == 300        \* timedelta(minutes=5)
DEFAULT_EXPIRES_IN == 3600   \* tokens.get('expires_in', 3600)
REQUEST_TIMEOUT == 30
CACHE_DURATION == 300
DEFAULT_INFO_SECONDS == 3600 \* timedelta(hours=1) in get_token_info
WINDOW_SECONDS == 60         \* (now - request_window_start).total_seconds() >= 60

----------------------------------------------------------------------------
(* Values *)

NoKeyFile == "NoKeyFile"             \* ENCRYPTION_KEY_FILE does not exist
NoKey == "NoKey"                     \* a manager that was not constructed yet
None == "None"                       \* Python's None, where a string is expected
NoTokens == [none |-> TRUE]          \* Python's None, where a dict is expected
NoFile == [fmt |-> "none"]           \* TOKEN_STORAGE_PATH does not exist
PartialFile == [fmt |-> "partial"]   \* opened with 'w' (truncated), json.dump not completed
NoRet == [op |-> "none"]

IsNone(d) == "none" \in DOMAIN d

(* File permission bits: of a file that does not exist, as set by
   os.chmod(path, 0o600), and as open() gives a file it creates (0666 masked
   by the process umask, 077 or the usual 022) *)
NoMode == "none"
OWNER_ONLY == "0600"
CreateModes == {"0600", "0644"}

(* dict.get(k, default) *)
Get(d, k, default) == IF k \in DOMAIN d THEN d[k] ELSE default

Managers == {"server", "setup"}
Keys == {"k1", "k2"}
TokenDeltas == {1, 3300}
ClientDeltas == {1, 59, 299}
NoData == [none |-> TRUE]            \* Python's None, where a payload is expected

(* Request shapes: an endpoint and its query parameters, a dict kept as the
   sequence of its (name, value) pairs in insertion order *)
Endpoints == {"/user/profile/basic", "/activity/workout"}
KeyOrder == <<"end", "limit", "start">>      \* the parameter names, sorted
ParamNames == {KeyOrder[i] : i \in DOMAIN KeyOrder}
ParamValues == {"5", "2024-01-01"}

(* every params dict: up to MaxParams pairs with distinct names *)
ParamDicts ==
    {p \in UNION {[1..n -> ParamNames \X ParamValues] : n \in 0..MaxParams} :
        \A i, j \in DOMAIN p : i # j => p[i][1] # p[j][1]}

(* the requests the read operations make: get_user_profile() and
   get_workouts(limit=5) *)
Requests ==
    { [endpoint |-> "/user/profile/basic", params |-> <<>>],
      [endpoint |-> "/activity/workout", params |-> << <<"limit", "5">> >>] }

RateDeltas == {1, 59, 60}


(* Response payloads: a JSON document, kept as the sequence of its items;
   the empty document ({} or []) is falsy in Python *)
Payloads == {<<>>, <<"x">>, <<"y">>}

Truthy(r) == ~IsNone(r) /\ Len(r.data) > 0

(* Python dicts: the empty dict, d[k] = v, del d[k] *)
EmptyDict == [k \in {} |-> NoData]

DictSet(d, k, v) == [x \in DOMAIN d \cup {k} |-> IF x = k THEN v ELSE d[x]]

DictDel(d, k) == [x \in DOMAIN d \ {k} |-> d[x]]

(* the coroutines: each is idle or suspended at "await client.get(...)" *)
Slots == 1..MaxInFlight
Idle == [pc |-> "idle"]

(* what the await on the upstream GET can do: the GET answers with a status
   and a body (JSON or not), times out or fails in transport, or the task is
   cancelled while it waits *)
Responses ==
    [kind : {"response"}, status : {200}, json : {TRUE}, body : Payloads]
    \cup [kind : {"response"}, status : {200}, json : {FALSE}, body : {<<"text">>}]
    \cup [kind : {"response"}, status : {401, 429, 500}, json : {FALSE},
          body : {<<"text">>}]
    \cup [kind : {"response"}, status : {429}, json : {FALSE},
          body : {<<"Rate limited">>}]
    \cup [kind : {"timeout", "network", "cancelled"}]

(* the failures _make_request raises, by message *)
RateLimitExceeded == "Rate limit exceeded. Please wait before making more requests."
NoValidAccessToken == "No valid access token available"
AuthenticationFailed == "Authentication failed. Please re-authorize your WHOOP account."
ApiRequestFailed == "API request failed with status"
RequestTimedOut == "Request timed out. Please try again."
TransportError == "httpx.TransportError"
JsonDecodeError == "json.JSONDecodeError"
CancelledError == "asyncio.CancelledError"

Raise(message) == [kind |-> "error", message |-> message]

RaiseStatus(status, text) ==
    [kind |-> "error", message |-> ApiRequestFailed, status |-> status, text |-> text]

Return(data) == [kind |-> "data", data |-> data]

(* Fernet: encrypt under a key, decrypt with a key *)
DecryptFailed == "InvalidToken"

Encrypt(key, data) == [key |-> key, pt |-> data]

Decrypt(key, ct) == IF ct.key = key THEN ct.pt ELSE DecryptFailed

(* datetime.isoformat() / datetime.fromisoformat(): a text is well formed
   (it parses back to the instant it was made from) or it does not parse *)
IsoFormat(t) == [iso |-> TRUE, t |-> t]

Unparseable == [iso |-> FALSE, t |-> 0]

Parses(s) == s.iso

FromIsoFormat(s) == s.t

----------------------------------------------------------------------------
(* What the OAuth companion service and the file system can answer *)

(* A token response: a dict, some of whose keys may be missing *)
SuccessBodies ==
    { [success |-> TRUE, access_token |-> "a1", refresh_token |-> "r1",
       expires_in |-> 301, token_type |-> "Bearer"],
      [success |-> TRUE, access_token |-> "a2", refresh_token |-> "",
       expires_in |-> 0, token_type |-> "Bearer"],
      [success |-> TRUE, access_token |-> "a1"],
      [success |-> TRUE, refresh_token |-> "r1", expires_in |-> 301] }

FailureBodies == { [success |-> FALSE, error |-> "invalid_grant"] }

MalformedBody == [malformed |-> TRUE]    \* response.json() raises

RefreshLatencies == {0, 2}

(* requests.post(...): it raises (connection error, timeout) or answers *)
RefreshOutcomes ==
    [kind : {"exception"}, latency : {0}]
    \cup [kind : {"response"}, status : {200}, latency : RefreshLatencies,
          body : SuccessBodies \cup FailureBodies \cup {MalformedBody}]
    \cup [kind : {"response"}, status : {401, 500}, latency : {0},
          body : FailureBodies]

NoRefresh == [kind |-> "exception", latency |-> 0]

(* the refresh outcomes to consider for a stored file: all of outcomes when
   get_valid_access_token would call the endpoint, one otherwise *)
Saving(outcome) ==
    /\ outcome.kind = "response"
    /\ outcome.status = 200
    /\ "access_token" \in DOMAIN outcome.body

FaultsOf(outcome, faults) == IF Saving(outcome) THEN faults ELSE {"none"}

(* Where save_tokens can fail: before the file is opened (encryption, open),
   after it was truncated (json.dump), or at os.chmod *)
SaveFaults == {"none", "open", "write", "chmod"}

----------------------------------------------------------------------------
(* Token Store: the methods of TokenManager, as functions of the manager's
   key, the files and the clock *)

(* a manager that generates a key at every construction *)
mutant_get_or_create_key(kf, fresh) == [key |-> fresh, keyFile |-> fresh]

(* _get_or_create_key: [key, keyFile'] for a freshly generated key fresh *)
get_or_create_key(kf, fresh) ==
    IF kf # NoKeyFile
    THEN [key |-> kf, keyFile |-> kf]
    ELSE [key |-> fresh, keyFile |-> fresh]

(* a document whose expiry ignores the response's expires_in *)
mutant_token_data(key, tokens, t) ==
    [fmt |-> "json",
     access_token |-> Encrypt(key, tokens["access_token"]),
     refresh_token |-> Encrypt(key, Get(tokens, "refresh_token", "")),
     token_type |-> Get(tokens, "token_type", "Bearer"),
     expires_at |-> IsoFormat(t + DEFAULT_EXPIRES_IN),
     created_at |-> IsoFormat(t)]

(* the key file's permission bits after _get_or_create_key *)
key_mode(kf, mode) == IF kf # NoKeyFile THEN mode ELSE OWNER_ONLY

(* the credential file's permission bits after save_tokens: open(path, 'w')
   keeps the bits of an existing file and gives a new file the bits created;
   os.chmod is reached only when the write completed *)
save_mode(tokens, fault, file, mode, created) ==
    IF "access_token" \notin DOMAIN tokens \/ fault = "open"
    THEN mode
    ELSE IF fault \in {"write", "chmod"}
    THEN (IF file = NoFile THEN created ELSE mode)
    ELSE OWNER_ONLY

(* the bits open() can give the credential file in a save with this fault *)
CreateModesOf(fault, file) ==
    IF file = NoFile /\ fault \in {"write", "chmod"} THEN CreateModes ELSE {OWNER_ONLY}

(* the JSON document save_tokens writes *)
token_data(key, tokens, t) ==
    [fmt |-> "json",
     access_token |-> Encrypt(key, tokens["access_token"]),
     refresh_token |-> Encrypt(key, Get(tokens, "refresh_token", "")),
     token_type |-> Get(tokens, "token_type", "Bearer"),
     expires_at |-> IsoFormat(t + Get(tokens, "expires_in", DEFAULT_EXPIRES_IN)),
     created_at |-> IsoFormat(t)]

(* save_tokens: the file afterwards, and whether it raised *)
save_tokens(key, tokens, fault, file, t) ==
    IF "access_token" \notin DOMAIN tokens
    THEN [file |-> file, raised |-> TRUE]                      \* KeyError
    ELSE CASE fault = "open" -> [file |-> file, raised |-> TRUE]
           [] fault = "write" -> [file |-> PartialFile, raised |-> TRUE]
           [] fault = "chmod" -> [file |-> token_data(key, tokens, t), raised |-> TRUE]
           [] OTHER -> [file |-> token_data(key, tokens, t), raised |-> FALSE]

(* load_tokens: the decrypted dict, or NoTokens *)
load_tokens(key, file) ==
    CASE file.fmt = "none" -> NoTokens
      [] file.fmt = "partial" -> NoTokens                      \* json.load raises
      [] file.fmt = "fernet" ->
            IF file.key = key THEN file.tokens ELSE NoTokens
      [] OTHER ->
            IF \/ Decrypt(key, file.access_token) = DecryptFailed
               \/ Decrypt(key, file.refresh_token) = DecryptFailed
            THEN NoTokens
            ELSE [access_token |-> Decrypt(key, file.access_token),
                  refresh_token |-> Decrypt(key, file.refresh_token),
                  token_type |-> file.token_type,
                  expires_at |-> file.expires_at,
                  created_at |-> file.created_at]

(* an expiry check that is strict at the boundary *)
mutant_is_token_expired(tokens, t) ==
    IF "expires_at" \notin DOMAIN tokens \/ ~Parses(tokens.expires_at)
    THEN TRUE
    ELSE t + BUFFER_SECONDS > FromIsoFormat(tokens.expires_at)

(* an expiry check that takes a record without a readable expiry for valid *)
mutant_open_is_token_expired(tokens, t) ==
    IF "expires_at" \notin DOMAIN tokens \/ ~Parses(tokens.expires_at)
    THEN FALSE
    ELSE t + BUFFER_SECONDS >= FromIsoFormat(tokens.expires_at)

(* is_token_expired *)
is_token_expired(tokens, t) ==
    IF "expires_at" \notin DOMAIN tokens \/ ~Parses(tokens.expires_at)
    THEN TRUE
    ELSE t + BUFFER_SECONDS >= FromIsoFormat(tokens.expires_at)

(* a refresh that removes the credential file when the endpoint refuses *)
mutant_refresh_tokens(key, refresh_token, outcome, fault, file, t) ==
    IF outcome.kind = "exception"
    THEN [file |-> file, result |-> NoTokens, raised |-> FALSE]
    ELSE IF outcome.status = 200
         THEN IF "malformed" \in DOMAIN outcome.body
              THEN [file |-> file, result |-> NoTokens, raised |-> FALSE]
              ELSE IF outcome.body.success
                   THEN LET saved == save_tokens(key, outcome.body, fault, file, t)
                        IN  IF saved.raised
                            THEN [file |-> saved.file, result |-> NoTokens,
                                  raised |-> FALSE]
                            ELSE [file |-> saved.file, result |-> outcome.body,
                                  raised |-> FALSE]
                   ELSE [file |-> file, result |-> NoTokens, raised |-> FALSE]
         ELSE [file |-> NoFile, result |-> NoTokens, raised |-> FALSE]

(* refresh_tokens, the call answered by outcome at instant t: the file
   afterwards, the dict returned (NoTokens for None) and whether it raised.
   The whole body is inside try/except Exception, which returns None *)
refresh_tokens(key, refresh_token, outcome, fault, file, t) ==
    IF outcome.kind = "exception"
    THEN [file |-> file, result |-> NoTokens, raised |-> FALSE]
    ELSE IF outcome.status = 200
         THEN IF "malformed" \in DOMAIN outcome.body
              THEN [file |-> file, result |-> NoTokens, raised |-> FALSE]
              ELSE IF outcome.body.success
                   THEN LET saved == save_tokens(key, outcome.body, fault, file, t)
                        IN  IF saved.raised
                            THEN [file |-> saved.file, result |-> NoTokens,
                                  raised |-> FALSE]
                            ELSE [file |-> saved.file, result |-> outcome.body,
                                  raised |-> FALSE]
                   ELSE [file |-> file, result |-> NoTokens, raised |-> FALSE]
         ELSE [file |-> file, result |-> NoTokens, raised |-> FALSE]

(* a variant that falls back to the stored token when the refresh fails *)
mutant_get_valid_access_token(key, outcome, fault, file, t) ==
    LET tokens == load_tokens(key, file) IN
    IF IsNone(tokens)
    THEN [file |-> file, result |-> None, refreshed |-> FALSE, raised |-> FALSE,
          at |-> t]
    ELSE IF ~is_token_expired(tokens, t)
         THEN [file |-> file, result |-> tokens.access_token, refreshed |-> FALSE,
               raised |-> FALSE, at |-> t]
         ELSE LET r == refresh_tokens(key, tokens.refresh_token, outcome, fault,
                                      file, t + outcome.latency)
              IN  [file |-> r.file,
                   result |-> IF IsNone(r.result) THEN tokens.access_token
                              ELSE r.result.access_token,
                   refreshed |-> TRUE, raised |-> r.raised,
                   at |-> t + outcome.latency]

(* a variant that refreshes at every call, expired or not *)
mutant_eager_get_valid_access_token(key, outcome, fault, file, t) ==
    LET tokens == load_tokens(key, file) IN
    IF IsNone(tokens)
    THEN [file |-> file, result |-> None, refreshed |-> FALSE, raised |-> FALSE,
          at |-> t]
    ELSE LET r == refresh_tokens(key, tokens.refresh_token, outcome, fault,
                                 file, t + outcome.latency)
         IN  [file |-> r.file,
              result |-> IF IsNone(r.result) THEN None ELSE r.result.access_token,
              refreshed |-> TRUE, raised |-> r.raised,
              at |-> t + outcome.latency]

(* a variant that gives up on an expired record without a refresh call *)
mutant_lazy_get_valid_access_token(key, outcome, fault, file, t) ==
    LET tokens == load_tokens(key, file) IN
    IF IsNone(tokens)
    THEN [file |-> file, result |-> None, refreshed |-> FALSE, raised |-> FALSE,
          at |-> t]
    ELSE IF ~is_token_expired(tokens, t)
         THEN [file |-> file, result |-> tokens.access_token, refreshed |-> FALSE,
               raised |-> FALSE, at |-> t]
         ELSE [file |-> file, result |-> None, refreshed |-> FALSE,
               raised |-> FALSE, at |-> t]

(* get_valid_access_token, called at instant t; a refresh call, if one is
   made, is answered by outcome after outcome.latency seconds.  The file
   afterwards, the token returned (None for absence), whether the refresh
   endpoint was called, whether the call raised and the instant of return *)
get_valid_access_token(key, outcome, fault, file, t) ==
    LET tokens == load_tokens(key, file) IN
    IF IsNone(tokens)
    THEN [file |-> file, result |-> None, refreshed |-> FALSE, raised |-> FALSE,
          at |-> t]
    ELSE IF ~is_token_expired(tokens, t)
         THEN [file |-> file, result |-> tokens.access_token, refreshed |-> FALSE,
               raised |-> FALSE, at |-> t]
         ELSE LET r == refresh_tokens(key, tokens.refresh_token, outcome, fault,
                                      file, t + outcome.latency)
              IN  [file |-> r.file,
                   result |-> IF IsNone(r.result) THEN None ELSE r.result.access_token,
                   refreshed |-> TRUE, raised |-> r.raised,
                   at |-> t + outcome.latency]

(* whether get_valid_access_token would call the refresh endpoint *)
NeedsRefresh(key, file, t) ==
    LET tokens == load_tokens(key, file) IN
    ~IsNone(tokens) /\ is_token_expired(tokens, t)

OutcomesOf(key, file, t, outcomes) ==
    IF NeedsRefresh(key, file, t) THEN outcomes ELSE {NoRefresh}

(* the credential file's permission bits after get_valid_access_token: those
   save_tokens leaves when the refresh reaches it (the file exists then) *)
refresh_mode(key, outcome, fault, file, mode, t) ==
    IF NeedsRefresh(key, file, t) /\ Saving(outcome) /\ outcome.body.success
    THEN save_mode(outcome.body, fault, file, mode, mode)
    ELSE mode

(* a clear that keeps the file *)
mutant_clear_tokens(file) == file

(* clear_tokens: the file afterwards.  os.remove on the file the same user
   created is taken to succeed; the method catches every exception *)
clear_tokens(file) == NoFile

(* load_tokens as a call: the dict returned and whether the call raised.
   The path without a file returns before the try block and the except
   clause of the try block returns None, so no path raises *)
load_tokens_call(key, file) ==
    [result |-> load_tokens(key, file), raised |-> FALSE]

(* a summary that reports a missing record as an expired one *)
mutant_get_token_info(key, file, t) ==
    LET tokens == load_tokens(key, file) IN
    IF IsNone(tokens)
    THEN [raised |-> FALSE, info |-> [status |-> "expired"]]
    ELSE [raised |-> FALSE,
          info |-> [status |-> IF t > FromIsoFormat(tokens.expires_at)
                               THEN "expired" ELSE "valid",
                    expires_at |-> tokens.expires_at,
                    created_at |-> Get(tokens, "created_at", IsoFormat(t)),
                    token_type |-> Get(tokens, "token_type", "Bearer"),
                    has_refresh_token |-> Get(tokens, "refresh_token", "") # ""]]

(* a summary that copies the access token into token_type *)
mutant_leaky_get_token_info(key, file, t) ==
    LET tokens == load_tokens(key, file) IN
    IF IsNone(tokens)
    THEN [raised |-> FALSE, info |-> [status |-> "no_tokens"]]
    ELSE [raised |-> FALSE,
          info |-> [status |-> IF t > FromIsoFormat(tokens.expires_at)
                               THEN "expired" ELSE "valid",
                    expires_at |-> tokens.expires_at,
                    created_at |-> Get(tokens, "created_at", IsoFormat(t)),
                    token_type |-> tokens.access_token,
                    has_refresh_token |-> Get(tokens, "refresh_token", "") # ""]]

(* get_token_info: the summary dict, or raised when fromisoformat fails on
   the stored expires_at (the method has no try block) *)
get_token_info(key, file, t) ==
    LET tokens == load_tokens(key, file) IN
    IF IsNone(tokens)
    THEN [raised |-> FALSE, info |-> [status |-> "no_tokens"]]
    ELSE IF "expires_at" \in DOMAIN tokens /\ ~Parses(tokens.expires_at)
    THEN [raised |-> TRUE, info |-> NoTokens]
    ELSE LET expires_at ==
                 IF "expires_at" \in DOMAIN tokens
                 THEN FromIsoFormat(tokens.expires_at)
                 ELSE IF "timestamp" \in DOMAIN tokens /\ "expires_in" \in DOMAIN tokens
                 THEN tokens.timestamp + tokens.expires_in
                 ELSE t + DEFAULT_INFO_SECONDS
         IN  [raised |-> FALSE,
              info |-> [status |-> IF t > expires_at THEN "expired" ELSE "valid",
                        expires_at |-> IsoFormat(expires_at),
                        created_at |-> Get(tokens, "created_at", IsoFormat(t)),
                        token_type |-> Get(tokens, "token_type", "Bearer"),
                        has_refresh_token |-> Get(tokens, "refresh_token", "") # ""]]

----------------------------------------------------------------------------
(* API Access Layer: the methods of WhoopClient, as functions of the
   client's fields and the clock *)

(* a limiter that admits one call more than the ceiling *)
mutant_check_rate_limit(count, window_start, t) ==
    LET reset == t - window_start >= WINDOW_SECONDS
        c == IF reset THEN 0 ELSE count
        w == IF reset THEN t ELSE window_start
    IN  IF c > MAX_REQUESTS_PER_MINUTE
        THEN [admitted |-> FALSE, request_count |-> c, request_window_start |-> w]
        ELSE [admitted |-> TRUE, request_count |-> c + 1, request_window_start |-> w]

(* a limiter that resets the counter and keeps the old window start *)
mutant_stale_check_rate_limit(count, window_start, t) ==
    LET reset == t - window_start >= WINDOW_SECONDS
        c == IF reset THEN 0 ELSE count
        w == window_start
    IN  IF c >= MAX_REQUESTS_PER_MINUTE
        THEN [admitted |-> FALSE, request_count |-> c, request_window_start |-> w]
        ELSE [admitted |-> TRUE, request_count |-> c + 1, request_window_start |-> w]

(* _check_rate_limit: whether the call is admitted (it raises otherwise) and
   the counter and window start afterwards *)
check_rate_limit(count, window_start, t) ==
    LET reset == t - window_start >= WINDOW_SECONDS
        c == IF reset THEN 0 ELSE count
        w == IF reset THEN t ELSE window_start
    IN  IF c >= MAX_REQUESTS_PER_MINUTE
        THEN [admitted |-> FALSE, request_count |-> c, request_window_start |-> w]
        ELSE [admitted |-> TRUE, request_count |-> c + 1, request_window_start |-> w]

(* the names of a params dict, and the value of one of them *)
Names(params) == {params[i][1] : i \in DOMAIN params}

ValueOf(params, name) ==
    LET i == CHOOSE j \in DOMAIN params : params[j][1] = name IN params[i][2]

(* a serialisation that keeps the insertion order *)
mutant_json_dumps(params) == params

(* json.dumps(params, sort_keys=True): the pairs, ordered by name *)
json_dumps(params) ==
    LET present == SelectSeq(KeyOrder, LAMBDA k : k \in Names(params))
    IN  [i \in DOMAIN present |-> <<present[i], ValueOf(params, present[i])>>]

(* a key made of the parameters alone *)
mutant_get_cache_key(endpoint, params) ==
    [endpoint |-> "", param_str |-> json_dumps(params)]

(* _get_cache_key: f"{endpoint}:{param_str}", or the endpoint alone *)
get_cache_key(endpoint, params) ==
    IF params # <<>>
    THEN [endpoint |-> endpoint, param_str |-> json_dumps(params)]
    ELSE [endpoint |-> endpoint, param_str |-> <<>>]

(* a lookup that ignores the age of the entry *)
mutant_get_from_cache(c, cache_key, t) ==
    IF cache_key \in DOMAIN c
    THEN [cache |-> c, result |-> [data |-> c[cache_key].data]]
    ELSE [cache |-> c, result |-> NoData]

(* _get_from_cache: the cache afterwards and the payload returned *)
get_from_cache(c, cache_key, t) ==
    IF cache_key \in DOMAIN c
    THEN LET cache_time == FromIsoFormat(c[cache_key].cached_at) IN
         IF t - cache_time < CACHE_DURATION
         THEN [cache |-> c, result |-> [data |-> c[cache_key].data]]
         ELSE [cache |-> DictDel(c, cache_key), result |-> NoData]
    ELSE [cache |-> c, result |-> NoData]

(* a save that keeps the entry a key already has *)
mutant_save_to_cache(c, cache_key, data, t) ==
    IF cache_key \in DOMAIN c
    THEN c
    ELSE DictSet(c, cache_key, [data |-> data, cached_at |-> IsoFormat(t)])

(* _save_to_cache: the cache afterwards *)
save_to_cache(c, cache_key, data, t) ==
    DictSet(c, cache_key, [data |-> data, cached_at |-> IsoFormat(t)])

(* clear_cache: the cache afterwards *)
clear_cache(c) == EmptyDict

(* the Authorization header: f'Bearer {access_token}' *)
Bearer(access_token) == <<"Bearer ", access_token>>

(* headers built whatever the Token Store returned *)
mutant_get_headers(key, outcome, fault, file, t) ==
    LET r == get_valid_access_token(key, outcome, fault, file, t) IN
    [file |-> r.file, at |-> r.at, refreshed |-> r.refreshed,
     raised |-> FALSE, access_token |-> r.result,
     Authorization |-> Bearer(r.result)]

(* _get_headers: the token for the Authorization header, or the failure
   raised when the Token Store has none *)
get_headers(key, outcome, fault, file, t) ==
    LET r == get_valid_access_token(key, outcome, fault, file, t) IN
    [file |-> r.file, at |-> r.at, refreshed |-> r.refreshed,
     raised |-> (r.result = None \/ r.result = ""), access_token |-> r.result,
     Authorization |-> Bearer(r.result)]

(* a pipeline that looks up the cache before the rate check *)
mutant_cache_first_make_request_send(endpoint, params, count, window_start, c, key, file, outcome, fault, t) ==
    LET rl == check_rate_limit(count, window_start, t)
        cache_key == get_cache_key(endpoint, params)
        cached_data == get_from_cache(c, cache_key, t)
        headers == get_headers(key, outcome, fault, file, t)
        base == [request_count |-> rl.request_count,
                 request_window_start |-> rl.request_window_start,
                 cache_key |-> cache_key, admitted |-> rl.admitted]
    IN
    IF Truthy(cached_data.result)
    THEN base @@ [phase |-> "returned", result |-> Return(cached_data.result.data),
                  cache |-> cached_data.cache, file |-> file, at |-> t,
                  looked |-> TRUE, refreshed |-> FALSE, access_token |-> None,
                  Authorization |-> <<>>]
    ELSE IF ~rl.admitted
    THEN base @@ [phase |-> "raised", result |-> Raise(RateLimitExceeded),
                  cache |-> cached_data.cache, file |-> file, at |-> t,
                  looked |-> TRUE,
                  refreshed |-> FALSE, access_token |-> None,
                  Authorization |-> <<>>]
    ELSE IF headers.raised
    THEN base @@ [phase |-> "raised", result |-> Raise(NoValidAccessToken),
                  cache |-> cached_data.cache, file |-> headers.file,
                  at |-> headers.at, looked |-> TRUE,
                  refreshed |-> headers.refreshed, access_token |-> None,
                  Authorization |-> <<>>]
    ELSE base @@ [phase |-> "awaiting", result |-> Raise(""),
                  cache |-> cached_data.cache, file |-> headers.file,
                  at |-> headers.at, looked |-> TRUE,
                  refreshed |-> headers.refreshed,
                  access_token |-> headers.access_token,
                  Authorization |-> headers.Authorization]

(* a request that counts only the calls that reach the upstream GET *)
mutant_outbound_make_request_send(endpoint, params, count, window_start, c, key, file, outcome, fault, t) ==
    LET rl == check_rate_limit(count, window_start, t)
        cache_key == get_cache_key(endpoint, params)
        cached_data == get_from_cache(c, cache_key, t)
        headers == get_headers(key, outcome, fault, file, t)
        base == [request_count |-> rl.request_count,
                 request_window_start |-> rl.request_window_start,
                 cache_key |-> cache_key, admitted |-> rl.admitted]
    IN
    IF ~rl.admitted
    THEN base @@ [phase |-> "raised", result |-> Raise(RateLimitExceeded),
                  cache |-> c, file |-> file, at |-> t, looked |-> FALSE,
                  refreshed |-> FALSE, access_token |-> None,
                  Authorization |-> <<>>]
    ELSE IF Truthy(cached_data.result)
    THEN [base EXCEPT !.request_count = @ - 1] @@ [phase |-> "returned", result |-> Return(cached_data.result.data),
                  cache |-> cached_data.cache, file |-> file, at |-> t,
                  looked |-> TRUE, refreshed |-> FALSE, access_token |-> None,
                  Authorization |-> <<>>]
    ELSE IF headers.raised
    THEN [base EXCEPT !.request_count = @ - 1] @@ [phase |-> "raised", result |-> Raise(NoValidAccessToken),
                  cache |-> cached_data.cache, file |-> headers.file,
                  at |-> headers.at, looked |-> TRUE,
                  refreshed |-> headers.refreshed, access_token |-> None,
                  Authorization |-> <<>>]
    ELSE base @@ [phase |-> "awaiting", result |-> Raise(""),
                  cache |-> cached_data.cache, file |-> headers.file,
                  at |-> headers.at, looked |-> TRUE,
                  refreshed |-> headers.refreshed,
                  access_token |-> headers.access_token,
                  Authorization |-> headers.Authorization]

(* _make_request up to "await client.get(...)": rate check, cache lookup,
   headers.  phase tells how it left: raised, returned (from the cache) or
   awaiting (the GET was issued) *)
make_request_send(endpoint, params, count, window_start, c, key, file, outcome, fault, t) ==
    LET rl == check_rate_limit(count, window_start, t)
        cache_key == get_cache_key(endpoint, params)
        cached_data == get_from_cache(c, cache_key, t)
        headers == get_headers(key, outcome, fault, file, t)
        base == [request_count |-> rl.request_count,
                 request_window_start |-> rl.request_window_start,
                 cache_key |-> cache_key, admitted |-> rl.admitted]
    IN
    IF ~rl.admitted
    THEN base @@ [phase |-> "raised", result |-> Raise(RateLimitExceeded),
                  cache |-> c, file |-> file, at |-> t, looked |-> FALSE,
                  refreshed |-> FALSE, access_token |-> None,
                  Authorization |-> <<>>]
    ELSE IF Truthy(cached_data.result)
    THEN base @@ [phase |-> "returned", result |-> Return(cached_data.result.data),
                  cache |-> cached_data.cache, file |-> file, at |-> t,
                  looked |-> TRUE, refreshed |-> FALSE, access_token |-> None,
                  Authorization |-> <<>>]
    ELSE IF headers.raised
    THEN base @@ [phase |-> "raised", result |-> Raise(NoValidAccessToken),
                  cache |-> cached_data.cache, file |-> headers.file,
                  at |-> headers.at, looked |-> TRUE,
                  refreshed |-> headers.refreshed, access_token |-> None,
                  Authorization |-> <<>>]
    ELSE base @@ [phase |-> "awaiting", result |-> Raise(""),
                  cache |-> cached_data.cache, file |-> headers.file,
                  at |-> headers.at, looked |-> TRUE,
                  refreshed |-> headers.refreshed,
                  access_token |-> headers.access_token,
                  Authorization |-> headers.Authorization]

(* a response handler that leaves the credentials in place on 401 *)
mutant_make_request_receive(cache_key, response, c, file, t) ==
    IF response.kind = "timeout"
    THEN [cache |-> c, file |-> file, result |-> Raise(RequestTimedOut),
          phase |-> "raised"]
    ELSE IF response.kind = "network"
    THEN [cache |-> c, file |-> file, result |-> Raise(TransportError),
          phase |-> "raised"]
    ELSE IF response.kind = "cancelled"
    THEN [cache |-> c, file |-> file, result |-> Raise(CancelledError),
          phase |-> "raised"]
    ELSE IF response.status = 200
    THEN IF response.json
         THEN [cache |-> save_to_cache(c, cache_key, response.body, t),
               file |-> file, result |-> Return(response.body),
               phase |-> "returned"]
         ELSE [cache |-> c, file |-> file, result |-> Raise(JsonDecodeError),
               phase |-> "raised"]
    ELSE IF response.status = 401
    THEN [cache |-> c, file |-> file, result |-> Raise(AuthenticationFailed),
          phase |-> "raised"]
    ELSE [cache |-> c, file |-> file,
          result |-> RaiseStatus(response.status, response.body),
          phase |-> "raised"]

(* a response handler that clears the credentials on 401 and issues the
   GET once more *)
mutant_retry_make_request_receive(cache_key, response, c, file, t) ==
    IF response.kind = "timeout"
    THEN [cache |-> c, file |-> file, result |-> Raise(RequestTimedOut),
          phase |-> "raised"]
    ELSE IF response.kind = "network"
    THEN [cache |-> c, file |-> file, result |-> Raise(TransportError),
          phase |-> "raised"]
    ELSE IF response.kind = "cancelled"
    THEN [cache |-> c, file |-> file, result |-> Raise(CancelledError),
          phase |-> "raised"]
    ELSE IF response.status = 200
    THEN IF response.json
         THEN [cache |-> save_to_cache(c, cache_key, response.body, t),
               file |-> file, result |-> Return(response.body),
               phase |-> "returned"]
         ELSE [cache |-> c, file |-> file, result |-> Raise(JsonDecodeError),
               phase |-> "raised"]
    ELSE IF response.status = 401
    THEN [cache |-> c, file |-> clear_tokens(file),
          result |-> Raise(AuthenticationFailed), phase |-> "awaiting"]
    ELSE [cache |-> c, file |-> file,
          result |-> RaiseStatus(response.status, response.body),
          phase |-> "raised"]

(* a response handler that goes on waiting when the timeout fires *)
mutant_patient_make_request_receive(cache_key, response, c, file, t) ==
    IF response.kind = "timeout"
    THEN [cache |-> c, file |-> file, result |-> Raise(RequestTimedOut),
          phase |-> "awaiting"]
    ELSE IF response.kind = "network"
    THEN [cache |-> c, file |-> file, result |-> Raise(TransportError),
          phase |-> "raised"]
    ELSE IF response.kind = "cancelled"
    THEN [cache |-> c, file |-> file, result |-> Raise(CancelledError),
          phase |-> "raised"]
    ELSE IF response.status = 200
    THEN IF response.json
         THEN [cache |-> save_to_cache(c, cache_key, response.body, t),
               file |-> file, result |-> Return(response.body),
               phase |-> "returned"]
         ELSE [cache |-> c, file |-> file, result |-> Raise(JsonDecodeError),
               phase |-> "raised"]
    ELSE IF response.status = 401
    THEN [cache |-> c, file |-> clear_tokens(file),
          result |-> Raise(AuthenticationFailed), phase |-> "raised"]
    ELSE [cache |-> c, file |-> file,
          result |-> RaiseStatus(response.status, response.body),
          phase |-> "raised"]

(* a response handler that caches the body of every response *)
mutant_caching_make_request_receive(cache_key, response, c, file, t) ==
    IF response.kind = "timeout"
    THEN [cache |-> c, file |-> file, result |-> Raise(RequestTimedOut),
          phase |-> "raised"]
    ELSE IF response.kind = "network"
    THEN [cache |-> c, file |-> file, result |-> Raise(TransportError),
          phase |-> "raised"]
    ELSE IF response.kind = "cancelled"
    THEN [cache |-> c, file |-> file, result |-> Raise(CancelledError),
          phase |-> "raised"]
    ELSE IF response.status = 200
    THEN IF response.json
         THEN [cache |-> save_to_cache(c, cache_key, response.body, t),
               file |-> file, result |-> Return(response.body),
               phase |-> "returned"]
         ELSE [cache |-> c, file |-> file, result |-> Raise(JsonDecodeError),
               phase |-> "raised"]
    ELSE IF response.status = 401
    THEN [cache |-> c, file |-> clear_tokens(file),
          result |-> Raise(AuthenticationFailed), phase |-> "raised"]
    ELSE [cache |-> save_to_cache(c, cache_key, response.body, t), file |-> file,
          result |-> RaiseStatus(response.status, response.body),
          phase |-> "raised"]

(* a response handler without the clause for httpx.TimeoutException *)
mutant_untyped_make_request_receive(cache_key, response, c, file, t) ==
    IF response.kind = "timeout"
    THEN [cache |-> c, file |-> file, result |-> Raise(TransportError),
          phase |-> "raised"]
    ELSE IF response.kind = "network"
    THEN [cache |-> c, file |-> file, result |-> Raise(TransportError),
          phase |-> "raised"]
    ELSE IF response.kind = "cancelled"
    THEN [cache |-> c, file |-> file, result |-> Raise(CancelledError),
          phase |-> "raised"]
    ELSE IF response.status = 200
    THEN IF response.json
         THEN [cache |-> save_to_cache(c, cache_key, response.body, t),
               file |-> file, result |-> Return(response.body),
               phase |-> "returned"]
         ELSE [cache |-> c, file |-> file, result |-> Raise(JsonDecodeError),
               phase |-> "raised"]
    ELSE IF response.status = 401
    THEN [cache |-> c, file |-> clear_tokens(file),
          result |-> Raise(AuthenticationFailed), phase |-> "raised"]
    ELSE [cache |-> c, file |-> file,
          result |-> RaiseStatus(response.status, response.body),
          phase |-> "raised"]

(* a response handler that clears the credentials on every status but 200 *)
mutant_strict_make_request_receive(cache_key, response, c, file, t) ==
    IF response.kind = "timeout"
    THEN [cache |-> c, file |-> file, result |-> Raise(RequestTimedOut),
          phase |-> "raised"]
    ELSE IF response.kind = "network"
    THEN [cache |-> c, file |-> file, result |-> Raise(TransportError),
          phase |-> "raised"]
    ELSE IF response.kind = "cancelled"
    THEN [cache |-> c, file |-> file, result |-> Raise(CancelledError),
          phase |-> "raised"]
    ELSE IF response.status = 200
    THEN IF response.json
         THEN [cache |-> save_to_cache(c, cache_key, response.body, t),
               file |-> file, result |-> Return(response.body),
               phase |-> "returned"]
         ELSE [cache |-> c, file |-> file, result |-> Raise(JsonDecodeError),
               phase |-> "raised"]
    ELSE IF response.status = 401
    THEN [cache |-> c, file |-> clear_tokens(file),
          result |-> Raise(AuthenticationFailed), phase |-> "raised"]
    ELSE [cache |-> c, file |-> clear_tokens(file),
          result |-> RaiseStatus(response.status, response.body),
          phase |-> "raised"]

(* _make_request from the completion of "await client.get(...)": the cache
   and the credential file afterwards, the payload returned or the failure
   raised, and phase: returned, raised, or awaiting if the GET were issued
   again (no branch does) *)
make_request_receive(cache_key, response, c, file, t) ==
    IF response.kind = "timeout"
    THEN [cache |-> c, file |-> file, result |-> Raise(RequestTimedOut),
          phase |-> "raised"]
    ELSE IF response.kind = "network"
    THEN [cache |-> c, file |-> file, result |-> Raise(TransportError),
          phase |-> "raised"]
    ELSE IF response.kind = "cancelled"
    THEN [cache |-> c, file |-> file, result |-> Raise(CancelledError),
          phase |-> "raised"]
    ELSE IF response.status = 200
    THEN IF response.json
         THEN [cache |-> save_to_cache(c, cache_key, response.body, t),
               file |-> file, result |-> Return(response.body),
               phase |-> "returned"]
         ELSE [cache |-> c, file |-> file, result |-> Raise(JsonDecodeError),
               phase |-> "raised"]
    ELSE IF response.status = 401
    THEN [cache |-> c, file |-> clear_tokens(file),
          result |-> Raise(AuthenticationFailed), phase |-> "raised"]
    ELSE [cache |-> c, file |-> file,
          result |-> RaiseStatus(response.status, response.body),
          phase |-> "raised"]

----------------------------------------------------------------------------
(* Token Store: the calls *)

(* TokenManager(), Fernet.generate_key() drawing from keys *)
ConstructOf(m, keys) ==
    \E fresh \in keys :
        \E r \in {get_or_create_key(keyFile, fresh)} :
        /\ mgrKey' = [mgrKey EXCEPT ![m] = r.key]
        /\ keyFile' = r.keyFile
        /\ keyMode' = key_mode(keyFile, keyMode)
        /\ ret' = [op |-> "construct", mgr |-> m]
        /\ lastSaved' = IF IsNone(lastSaved) THEN lastSaved
                        ELSE [lastSaved EXCEPT !.since = @ \cup {m}]
        /\ UNCHANGED <<now, ticks, tokenFile, tokenMode, authCleared, clientVars>>

Construct(m) == ConstructOf(m, Keys)

(* save_tokens(tokens), as the setup flow calls it after the code exchange,
   for the token responses in bodies and the failure points in faults *)
SaveTokensOf(m, bodies, faults) ==
    /\ mgrKey[m] # NoKey
    /\ \E tokens \in bodies, fault \in faults :
        \E r \in {save_tokens(mgrKey[m], tokens, fault, tokenFile, now)} :
        \E created \in CreateModesOf(fault, tokenFile) :
        /\ fault # "none" => "access_token" \in DOMAIN tokens
        /\ tokenFile' = r.file
        /\ tokenMode' = save_mode(tokens, fault, tokenFile, tokenMode, created)
        /\ lastSaved' = IF r.raised
                        THEN (IF r.file = tokenFile THEN lastSaved ELSE NoTokens)
                        ELSE [tokens |-> tokens, since |-> {}]
        /\ authCleared' = IF r.file = tokenFile THEN authCleared ELSE FALSE
        /\ ret' = [op |-> "save_tokens", mgr |-> m, tokens |-> tokens,
                   raised |-> r.raised, at |-> now]
        /\ UNCHANGED <<now, ticks, keyFile, keyMode, mgrKey, clientVars>>

SaveTokens(m) == SaveTokensOf(m, SuccessBodies, SaveFaults)

(* load_tokens() *)
LoadTokens(m) ==
    /\ mgrKey[m] # NoKey
    /\ \E r \in {load_tokens_call(mgrKey[m], tokenFile)} :
        ret' = [op |-> "load_tokens", mgr |-> m, result |-> r.result,
                raised |-> r.raised]
    /\ UNCHANGED <<now, ticks, tokenVars, clientVars>>

(* is_token_expired(tokens), on the dict load_tokens returned *)
IsTokenExpired(m) ==
    /\ mgrKey[m] # NoKey
    /\ LET tokens == load_tokens(mgrKey[m], tokenFile) IN
        /\ ~IsNone(tokens)
        /\ ret' = [op |-> "is_token_expired", mgr |-> m, tokens |-> tokens,
                   at |-> now, result |-> is_token_expired(tokens, now)]
    /\ UNCHANGED <<now, ticks, tokenVars, clientVars>>

(* get_valid_access_token(); the refresh call inside it blocks the caller
   for outcome.latency seconds *)
GetValidAccessToken(m) ==
    /\ mgrKey[m] # NoKey
    /\ \E outcome \in OutcomesOf(mgrKey[m], tokenFile, now, RefreshOutcomes) :
       \E fault \in FaultsOf(outcome, SaveFaults) :
        \E r \in {get_valid_access_token(mgrKey[m], outcome, fault, tokenFile, now)} :
        /\ r.at = now \/ ticks < MaxTicks
        /\ now' = r.at
        /\ ticks' = IF r.at = now THEN ticks ELSE ticks + 1
        /\ tokenFile' = r.file
        /\ tokenMode' = refresh_mode(mgrKey[m], outcome, fault, tokenFile, tokenMode, now)
        /\ lastSaved' = IF r.file = tokenFile THEN lastSaved
                        ELSE IF r.result = None THEN NoTokens
                        ELSE [tokens |-> outcome.body, since |-> {}]
        /\ authCleared' = IF r.file = tokenFile THEN authCleared ELSE FALSE
        /\ ret' = [op |-> "get_valid_access_token", mgr |-> m, called |-> now,
                   refreshed |-> r.refreshed,
                   sent |-> IF r.refreshed
                            THEN load_tokens(mgrKey[m], tokenFile).refresh_token
                            ELSE None,
                   outcome |-> outcome, fault |-> fault, raised |-> r.raised,
                   result |-> r.result]
        /\ UNCHANGED <<keyFile, keyMode, mgrKey, clientVars>>

(* clear_tokens() *)
ClearTokens(m) ==
    /\ mgrKey[m] # NoKey
    /\ tokenFile' = clear_tokens(tokenFile)
    /\ tokenMode' = IF tokenFile' = NoFile THEN NoMode ELSE tokenMode
    /\ lastSaved' = NoTokens
    /\ ret' = [op |-> "clear_tokens", mgr |-> m, existed |-> tokenFile # NoFile,
               raised |-> FALSE]
    /\ UNCHANGED <<now, ticks, keyFile, keyMode, mgrKey, authCleared, clientVars>>

(* WhoopClient.get_auth_status(), which returns get_token_info() *)
GetAuthStatus(m) ==
    /\ mgrKey[m] # NoKey
    /\ \E r \in {get_token_info(mgrKey[m], tokenFile, now)} :
        ret' = [op |-> "get_auth_status", mgr |-> m, at |-> now,
                raised |-> r.raised, result |-> r.info]
    /\ UNCHANGED <<now, ticks, tokenVars, clientVars>>

(* the clock advances *)
TickToken ==
    /\ ticks < MaxTicks
    /\ \E d \in TokenDeltas : now' = now + d
    /\ ticks' = ticks + 1
    /\ ret' = NoRet
    /\ UNCHANGED <<tokenVars, clientVars>>

Init ==
    /\ now = 0
    /\ ticks = 0
    /\ keyFile = NoKeyFile
    /\ tokenFile = NoFile
    /\ mgrKey = [m \in Managers |-> NoKey]
    /\ ret = NoRet
    /\ lastSaved = NoTokens
    /\ cache = EmptyDict
    /\ request_count = 0
    /\ request_window_start = 0
    /\ callLog = <<>>
    /\ admittedLog = <<>>
    /\ stored = EmptyDict
    /\ pending = [i \in Slots |-> Idle]
    /\ authCleared = FALSE
    /\ keyMode = NoMode
    /\ tokenMode = NoMode

(* The setup script constructs a manager and saves the exchanged tokens
   (src/setup.py, save_tokens); the server's client constructs its own and
   reads, refreshes and clears through it *)
NextToken ==
    \/ \E m \in Managers : Construct(m)
    \/ SaveTokens("setup")
    \/ LoadTokens("server")
    \/ IsTokenExpired("server")
    \/ GetValidAccessToken("server")
    \/ ClearTokens("server")
    \/ GetAuthStatus("server")
    \/ TickToken

SpecToken == Init /\ [][NextToken]_vars

----------------------------------------------------------------------------
(* API Access Layer: its parts, called one at a time *)

(* _check_rate_limit() *)
CheckRateLimit ==
    /\ Len(callLog) < MaxCalls
    /\ \E r \in {check_rate_limit(request_count, request_window_start, now)} :
        /\ request_count' = r.request_count
        /\ request_window_start' = r.request_window_start
        /\ admittedLog' = IF r.admitted THEN Append(admittedLog, now) ELSE admittedLog
        /\ ret' = [op |-> "_check_rate_limit", admitted |-> r.admitted,
                   before |-> request_window_start, at |-> now]
    /\ callLog' = Append(callLog, now)
    /\ UNCHANGED <<now, ticks, tokenVars, cache, stored, pending>>

TickRate ==
    /\ ticks < MaxTicks
    /\ \E d \in RateDeltas : now' = now + d
    /\ ticks' = ticks + 1
    /\ ret' = NoRet
    /\ UNCHANGED <<tokenVars, clientVars>>

NextRate == CheckRateLimit \/ TickRate

SpecRate == Init /\ [][NextRate]_vars

CacheKeys == {get_cache_key(r.endpoint, r.params) : r \in Requests}

(* _save_to_cache(cache_key, data) *)
SaveToCache ==
    \E k \in CacheKeys, data \in Payloads :
        /\ cache' = save_to_cache(cache, k, data, now)
        /\ stored' = DictSet(stored, k, [data |-> data, at |-> now])
        /\ ret' = [op |-> "_save_to_cache", key |-> k, data |-> data]
        /\ UNCHANGED <<now, ticks, tokenVars, request_count, request_window_start,
                       callLog, admittedLog, pending>>

(* _get_from_cache(cache_key) *)
GetFromCache ==
    \E k \in CacheKeys :
        \E r \in {get_from_cache(cache, k, now)} :
        /\ cache' = r.cache
        /\ ret' = [op |-> "_get_from_cache", key |-> k, result |-> r.result]
        /\ UNCHANGED <<now, ticks, tokenVars, request_count, request_window_start,
                       callLog, admittedLog, stored, pending>>

(* clear_cache() *)
ClearCache ==
    /\ cache' = clear_cache(cache)
    /\ stored' = EmptyDict
    /\ ret' = [op |-> "clear_cache"]
    /\ UNCHANGED <<now, ticks, tokenVars, request_count, request_window_start,
                   callLog, admittedLog, pending>>

TickCache ==
    /\ ticks < MaxTicks
    /\ \E d \in ClientDeltas : now' = now + d
    /\ ticks' = ticks + 1
    /\ ret' = NoRet
    /\ UNCHANGED <<tokenVars, clientVars>>

NextCache == SaveToCache \/ GetFromCache \/ ClearCache \/ TickCache

SpecCache == Init /\ [][NextCache]_vars

(* _get_cache_key(endpoint, params), on two params dicts of one endpoint *)
KeyInputs == [op : {"input"}, endpoint : Endpoints, p : ParamDicts, q : ParamDicts]

InitKey ==
    /\ now = 0
    /\ ticks = 0
    /\ keyFile = NoKeyFile
    /\ tokenFile = NoFile
    /\ mgrKey = [m \in Managers |-> NoKey]
    /\ ret \in KeyInputs
    /\ lastSaved = NoTokens
    /\ cache = EmptyDict
    /\ request_count = 0
    /\ request_window_start = 0
    /\ callLog = <<>>
    /\ admittedLog = <<>>
    /\ stored = EmptyDict
    /\ pending = [i \in Slots |-> Idle]
    /\ authCleared = FALSE
    /\ keyMode = NoMode
    /\ tokenMode = NoMode

GetCacheKey ==
    /\ ret.op = "input"
    /\ ret' = [op |-> "_get_cache_key", endpoint |-> ret.endpoint,
               p |-> ret.p, q |-> ret.q,
               key_p |-> get_cache_key(ret.endpoint, ret.p),
               key_q |-> get_cache_key(ret.endpoint, ret.q)]
    /\ UNCHANGED <<now, ticks, tokenVars, clientVars>>

NextKey == GetCacheKey

SpecKey == InitKey /\ [][NextKey]_vars

----------------------------------------------------------------------------
(* API Access Layer: the read operations *)

(* the inputs of the whole server: credentials that last 301 seconds or are
   expired at once, a refresh that fails, succeeds or returns a short-lived
   token, a save that completes or fails while writing *)
PipelineBodies ==
    { [success |-> TRUE, access_token |-> "a1", refresh_token |-> "r1",
       expires_in |-> 301, token_type |-> "Bearer"],
      [success |-> TRUE, access_token |-> "a2", refresh_token |-> "",
       expires_in |-> 0, token_type |-> "Bearer"] }

PipelineOutcomes ==
    {NoRefresh}
    \cup [kind : {"response"}, status : {200}, latency : {0}, body : PipelineBodies]

PipelineFaults == {"none", "write"}

PipelineDeltas == {299, 300}

(* a read operation (get_user_profile, get_workouts) runs _make_request up
   to its await; the refresh call inside _get_headers blocks for
   outcome.latency seconds *)
StartRequestFor(i, requests, outcomes, faults) ==
    /\ pending[i] = Idle
    /\ mgrKey["server"] # NoKey
    /\ Len(callLog) < MaxRequests
    /\ callLog' = Append(callLog, now)
    /\ \E req \in requests :
       \E outcome \in OutcomesOf(mgrKey["server"], tokenFile, now, outcomes) :
       \E fault \in FaultsOf(outcome, faults) :
        \E r \in {make_request_send(req.endpoint, req.params, request_count,
                                     request_window_start, cache, mgrKey["server"],
                                     tokenFile, outcome, fault, now)} :
        /\ ~r.refreshed => outcome = NoRefresh
        /\ r.at = now \/ ticks < MaxWaits
        /\ now' = r.at
        /\ ticks' = IF r.at = now THEN ticks ELSE ticks + 1
        /\ request_count' = r.request_count
        /\ request_window_start' = r.request_window_start
        /\ admittedLog' = IF r.admitted THEN Append(admittedLog, now) ELSE admittedLog
        /\ cache' = r.cache
        /\ tokenFile' = r.file
        /\ tokenMode' = IF r.refreshed
                        THEN refresh_mode(mgrKey["server"], outcome, fault, tokenFile,
                                          tokenMode, now)
                        ELSE tokenMode
        /\ lastSaved' = IF r.file = tokenFile THEN lastSaved
                        ELSE IF r.phase = "awaiting"
                        THEN [tokens |-> outcome.body, since |-> {}]
                        ELSE NoTokens
        /\ authCleared' = IF r.file = tokenFile THEN authCleared ELSE FALSE
        /\ pending' = IF r.phase = "awaiting"
                      THEN [pending EXCEPT ![i] =
                               [pc |-> "awaiting", endpoint |-> req.endpoint,
                                params |-> req.params, cache_key |-> r.cache_key,
                                access_token |-> r.access_token,
                                Authorization |-> r.Authorization,
                                refreshed |-> r.refreshed]]
                      ELSE pending
        /\ ret' = [op |-> "_make_request", step |-> "send", slot |-> i,
                   endpoint |-> req.endpoint, params |-> req.params,
                   called |-> now, cache_key |-> r.cache_key,
                   admitted |-> r.admitted, looked |-> r.looked,
                   refreshed |-> r.refreshed, phase |-> r.phase,
                   outcome |-> outcome, fault |-> fault, result |-> r.result]
        /\ UNCHANGED <<keyFile, keyMode, mgrKey, stored>>

StartRequestOf(i, outcomes, faults) == StartRequestFor(i, Requests, outcomes, faults)

StartRequest(i) == StartRequestOf(i, PipelineOutcomes, PipelineFaults)

(* the upstream GET of a suspended _make_request completes, in one of the
   ways of responses *)
RespondOf(i, responses) ==
    /\ pending[i] # Idle
    /\ \E response \in responses :
        \E r \in {make_request_receive(pending[i].cache_key, response, cache,
                                        tokenFile, now)} :
        LET ok == response.kind = "response" /\ response.status = 200 /\ response.json
            rejected == response.kind = "response" /\ response.status = 401
        IN
        /\ cache' = r.cache
        /\ tokenFile' = r.file
        /\ tokenMode' = IF r.file = NoFile THEN NoMode ELSE tokenMode
        /\ stored' = IF ok
                     THEN DictSet(stored, pending[i].cache_key,
                                  [data |-> response.body, at |-> now])
                     ELSE stored
        /\ authCleared' = IF rejected THEN TRUE ELSE authCleared
        /\ lastSaved' = IF r.file = tokenFile THEN lastSaved ELSE NoTokens
        /\ pending' = IF r.phase = "awaiting" THEN pending
                      ELSE [pending EXCEPT ![i] = Idle]
        /\ ret' = [op |-> "_make_request", step |-> "receive", slot |-> i,
                   endpoint |-> pending[i].endpoint, params |-> pending[i].params,
                   cache_key |-> pending[i].cache_key, response |-> response,
                   replaced |-> IF pending[i].cache_key \in DOMAIN cache
                                THEN cache[pending[i].cache_key] ELSE NoData,
                   result |-> r.result]
        /\ UNCHANGED <<now, ticks, keyFile, keyMode, mgrKey, request_count,
                       request_window_start, callLog, admittedLog>>

Respond(i) == RespondOf(i, Responses)

Tick ==
    /\ ticks < MaxWaits
    /\ \E d \in PipelineDeltas : now' = now + d
    /\ ticks' = ticks + 1
    /\ ret' = NoRet
    /\ UNCHANGED <<tokenVars, clientVars>>

(* The server after init_whoop_client(): WhoopClient() has constructed its
   TokenManager, which created the key file if there was none; the setup
   script's manager reads the same key *)
InitServer ==
    /\ now = 0
    /\ ticks = 0
    /\ keyFile = "k1"
    /\ tokenFile = NoFile
    /\ mgrKey = [m \in Managers |-> "k1"]
    /\ ret = NoRet
    /\ lastSaved = NoTokens
    /\ cache = EmptyDict
    /\ request_count = 0
    /\ request_window_start = 0
    /\ callLog = <<>>
    /\ admittedLog = <<>>
    /\ stored = EmptyDict
    /\ pending = [i \in Slots |-> Idle]
    /\ authCleared = FALSE
    /\ keyMode = OWNER_ONLY
    /\ tokenMode = NoMode

(* The setup script saves credentials, read operations run one at a time *)
Next ==
    \/ SaveTokensOf("setup", PipelineBodies, PipelineFaults)
    \/ StartRequest(1)
    \/ Respond(1)
    \/ ClearCache
    \/ Tick

Spec == InitServer /\ [][Next]_vars

----------------------------------------------------------------------------
(* API Access Layer: read operations issued concurrently.  A coroutine runs
   without interruption up to its only suspension point, the await of the
   upstream GET, and from the completion of the GET to its end *)

(* get_user_profile(), get_workouts(limit=5) and get_recovery(limit=5) *)
ConcurrentRequests ==
    Requests \cup {[endpoint |-> "/recovery", params |-> << <<"limit", "5">> >>]}

(* the payload the upstream holds for a request: one per endpoint and
   parameter set *)
PayloadOf(endpoint, params) == <<endpoint, params>>

(* what the GET of the suspended coroutine p can do: the upstream answers 200
   with the payload of the request, answers 401, or the timeout fires *)
UpstreamResponses(p) ==
    { [kind |-> "response", status |-> 200, json |-> TRUE,
       body |-> PayloadOf(p.endpoint, p.params)],
      [kind |-> "response", status |-> 401, json |-> FALSE, body |-> <<"text">>],
      [kind |-> "timeout"] }

(* the credentials the setup script saved: they last an hour *)
SetupTokens ==
    [success |-> TRUE, access_token |-> "a1", refresh_token |-> "r1",
     expires_in |-> 3600, token_type |-> "Bearer"]

(* The server after init_whoop_client(), the setup script having saved
   credentials *)
InitConcurrent ==
    /\ now = 0
    /\ ticks = 0
    /\ keyFile = "k1"
    /\ tokenFile = token_data("k1", SetupTokens, 0)
    /\ mgrKey = [m \in Managers |-> "k1"]
    /\ ret = NoRet
    /\ lastSaved = NoTokens
    /\ cache = EmptyDict
    /\ request_count = 0
    /\ request_window_start = 0
    /\ callLog = <<>>
    /\ admittedLog = <<>>
    /\ stored = EmptyDict
    /\ pending = [i \in Slots |-> Idle]
    /\ authCleared = FALSE
    /\ keyMode = OWNER_ONLY
    /\ tokenMode = OWNER_ONLY

(* a read operation starts, as the coroutine of the first free slot *)
StartConcurrent(i) ==
    /\ \A j \in Slots : j < i => pending[j] # Idle
    /\ StartRequestFor(i, ConcurrentRequests, PipelineOutcomes, {"none"})

RespondConcurrent(i) == RespondOf(i, UpstreamResponses(pending[i]))

TickConcurrent ==
    /\ ticks < MaxWaits
    /\ now' = now + WINDOW_SECONDS
    /\ ticks' = ticks + 1
    /\ ret' = NoRet
    /\ UNCHANGED <<tokenVars, clientVars>>

NextConcurrent ==
    \/ \E i \in Slots : StartConcurrent(i)
    \/ \E i \in Slots : RespondConcurrent(i)
    \/ TickConcurrent

SpecConcurrent == InitConcurrent /\ [][NextConcurrent]_vars

(* Read operations of one kind, with every outcome of the GET; the upstream
   answers every GET, or its 30 second timeout fires (httpx.AsyncClient(
   timeout=REQUEST_TIMEOUT)), so a suspended coroutine is resumed *)
StartLive(i) ==
    /\ \A j \in Slots : j < i => pending[j] # Idle
    /\ StartRequestFor(i, {[endpoint |-> "/user/profile/basic", params |-> <<>>]},
                       PipelineOutcomes, {"none"})

(* one outcome of the GET for each branch of _make_request *)
LiveResponses ==
    { [kind |-> "response", status |-> 200, json |-> TRUE, body |-> <<"x">>],
      [kind |-> "response", status |-> 200, json |-> FALSE, body |-> <<"text">>],
      [kind |-> "response", status |-> 401, json |-> FALSE, body |-> <<"text">>],
      [kind |-> "response", status |-> 429, json |-> FALSE, body |-> <<"text">>],
      [kind |-> "response", status |-> 500, json |-> FALSE, body |-> <<"text">>],
      [kind |-> "timeout"], [kind |-> "network"], [kind |-> "cancelled"] }

RespondLive(i) == RespondOf(i, LiveResponses)

(* the stored credentials last 301 seconds, or are expired already *)
InitLive ==
    /\ now = 0
    /\ ticks = 0
    /\ keyFile = "k1"
    /\ tokenFile \in {token_data("k1", tokens, 0) : tokens \in PipelineBodies}
    /\ mgrKey = [m \in Managers |-> "k1"]
    /\ ret = NoRet
    /\ lastSaved = NoTokens
    /\ cache = EmptyDict
    /\ request_count = 0
    /\ request_window_start = 0
    /\ callLog = <<>>
    /\ admittedLog = <<>>
    /\ stored = EmptyDict
    /\ pending = [i \in Slots |-> Idle]
    /\ authCleared = FALSE
    /\ keyMode = OWNER_ONLY
    /\ tokenMode = OWNER_ONLY

NextLive ==
    \/ \E i \in Slots : StartLive(i)
    \/ \E i \in Slots : RespondLive(i)

SpecLive ==
    /\ InitLive
    /\ [][NextLive]_vars
    /\ \A i \in Slots : WF_vars(RespondLive(i))

----------------------------------------------------------------------------
(* MCP tool handlers (src/src/whoop_mcp_server.py) *)

Tools == {"get_whoop_auth_status", "get_whoop_profile", "get_whoop_workouts",
          "get_whoop_recovery"}

ReadTools == Tools \ {"get_whoop_auth_status"}

(* what response.json() can return, by Python type: a dict for a JSON
   object, a list for an array, None for null *)
JsonValues ==
    [shape : {"object", "array"}, items : Payloads]
    \cup {[shape |-> "null", items |-> <<>>]}

(* what the client operation awaited by a read tool can do: return a
   payload, or raise one of the failures of _make_request *)
ReadOutcomes ==
    [kind : {"data"}, data : JsonValues]
    \cup {Raise(RateLimitExceeded), Raise(NoValidAccessToken)}
    \cup {r \in {make_request_receive([endpoint |-> "/user/profile/basic",
                                       param_str |-> <<>>],
                                      response, EmptyDict, NoFile, 0).result :
                     response \in Responses} : r.kind = "error"}

(* what get_auth_status can do: return a summary, or raise *)
StatusOutcomes ==
    {Return([status |-> st]) : st \in {"no_tokens", "valid", "expired"}}
    \cup {Raise("ValueError")}

OutcomesOfTool(tool) ==
    IF tool = "get_whoop_auth_status" THEN StatusOutcomes ELSE ReadOutcomes

(* str(e) of a failure *)
Str(failure) ==
    IF "status" \in DOMAIN failure
    THEN <<failure.message, failure.status, failure.text>>
    ELSE <<failure.message>>

AttributeError == "AttributeError: object has no attribute 'get'"
TypeError == "TypeError: object has no len()"

(* the expression of the handler's print after the call: status['status'],
   data.get('first_name', 'N/A'), len(data).  The failure it raises, or
   Return(<<>>) *)
log_result(tool, data) ==
    CASE tool = "get_whoop_auth_status" -> Return(<<>>)
      [] tool = "get_whoop_profile" ->
            IF data.shape = "object" THEN Return(<<>>) ELSE Raise(AttributeError)
      [] OTHER ->
            IF data.shape = "null" THEN Raise(TypeError) ELSE Return(<<>>)

(* the dicts a handler returns *)
DataEnvelope(tool, data, t) ==
    [tool |-> tool, data |-> data, timestamp |-> IsoFormat(t)]

ErrorEnvelope(tool, failure, t) ==
    [tool |-> tool, error |-> Str(failure), timestamp |-> IsoFormat(t)]

(* a tool handler, its client operation ending in outcome: the envelope
   returned, or raised when an exception leaves the handler.  The try block
   holds the call, the construction of the result and the print of a detail
   of the data; except Exception does not catch a cancellation *)
tool_handler(tool, outcome, t) ==
    IF outcome.kind = "error"
    THEN IF outcome.message = CancelledError
         THEN [raised |-> TRUE, envelope |-> NoTokens]
         ELSE [raised |-> FALSE, envelope |-> ErrorEnvelope(tool, outcome, t)]
    ELSE LET logged == log_result(tool, outcome.data) IN
         IF logged.kind = "error"
         THEN [raised |-> FALSE, envelope |-> ErrorEnvelope(tool, logged, t)]
         ELSE [raised |-> FALSE, envelope |-> DataEnvelope(tool, outcome.data, t)]

ToolInputs ==
    UNION {[op : {"input"}, tool : {tool}, outcome : OutcomesOfTool(tool)] :
               tool \in Tools}

InitTool ==
    /\ now \in {0, WINDOW_SECONDS}
    /\ ticks = 0
    /\ keyFile = "k1"
    /\ tokenFile = NoFile
    /\ mgrKey = [m \in Managers |-> "k1"]
    /\ ret \in ToolInputs
    /\ lastSaved = NoTokens
    /\ cache = EmptyDict
    /\ request_count = 0
    /\ request_window_start = 0
    /\ callLog = <<>>
    /\ admittedLog = <<>>
    /\ stored = EmptyDict
    /\ pending = [i \in Slots |-> Idle]
    /\ authCleared = FALSE
    /\ keyMode = OWNER_ONLY
    /\ tokenMode = NoMode

(* the dispatcher calls a tool *)
CallTool ==
    /\ ret.op = "input"
    /\ \E r \in {tool_handler(ret.tool, ret.outcome, now)} :
        ret' = [op |-> "tool", tool |-> ret.tool, outcome |-> ret.outcome,
                at |-> now, raised |-> r.raised, envelope |-> r.envelope]
    /\ UNCHANGED <<now, ticks, tokenVars, clientVars>>

NextTool == CallTool

SpecTool == InitTool /\ [][NextTool]_vars

----------------------------------------------------------------------------
(* Properties of the Token Store, checked under SpecToken *)

(* the refresh call of the last get_valid_access_token succeeded: the
   endpoint answered 200 with a success body carrying an access token, and
   the save did not fail *)
RefreshSucceeded(outcome, fault) ==
    /\ outcome.kind = "response"
    /\ outcome.status = 200
    /\ "malformed" \notin DOMAIN outcome.body
    /\ outcome.body.success
    /\ "access_token" \in DOMAIN outcome.body
    /\ fault = "none"

Returned(op) == ret.op = op

(* C1: get_valid_access_token never returns an expired token: a non-absent
   return value is the access token of the stored credential record, and
   that record is not expired (now + 5 minutes < expires_at) at the moment of
   return, also when the token comes from a refresh response. *)
C1_NeverReturnsExpired ==
    (Returned("get_valid_access_token") /\ ret.result # None) =>
        LET rec == load_tokens(mgrKey[ret.mgr], tokenFile) IN
        /\ ~IsNone(rec)
        /\ rec.access_token = ret.result
        /\ Parses(rec.expires_at)
        /\ now + BUFFER_SECONDS < FromIsoFormat(rec.expires_at)

(* C7: credential round-trip: load_tokens after a completed save_tokens, with
   no other write in between, returns the saved plaintext access_token and
   refresh_token, also through a manager constructed after the save. *)
C7_RoundTrip ==
    (Returned("load_tokens") /\ ~IsNone(lastSaved)) =>
        /\ ~IsNone(ret.result)
        /\ ret.result.access_token = lastSaved.tokens.access_token
        /\ ret.result.refresh_token = Get(lastSaved.tokens, "refresh_token", "")

C7_Witness ==
    /\ Returned("load_tokens")
    /\ ~IsNone(lastSaved)
    /\ ret.mgr \in lastSaved.since
    /\ ~IsNone(ret.result)
    /\ ret.result.refresh_token = "r1"

(* C8: is_token_expired is true exactly when the record has 5:00 or less
   remaining (now + 5 minutes >= expires_at), false with more remaining. *)
C8_ExpiredIffWithinBuffer ==
    (Returned("is_token_expired") /\ Parses(ret.tokens.expires_at)) =>
        LET remaining == FromIsoFormat(ret.tokens.expires_at) - ret.at IN
        ret.result <=> (remaining <= BUFFER_SECONDS)

C8_Witness ==
    /\ Returned("is_token_expired")
    /\ Parses(ret.tokens.expires_at)
    /\ FromIsoFormat(ret.tokens.expires_at) - ret.at = BUFFER_SECONDS
    /\ ret.result

(* C9: when the stored record is expired and the refresh succeeds,
   get_valid_access_token returns the access token of the refresh response
   and the persisted record holds the refreshed access token, refresh token
   and expires_at = refresh time + expires_in, nothing of the old record. *)
C9_RefreshPersists ==
    (/\ Returned("get_valid_access_token")
     /\ ret.refreshed
     /\ RefreshSucceeded(ret.outcome, ret.fault)) =>
        LET body == ret.outcome.body
            key == mgrKey[ret.mgr]
        IN
        /\ ret.result = body.access_token
        /\ tokenFile.fmt = "json"
        /\ Decrypt(key, tokenFile.access_token) = body.access_token
        /\ Decrypt(key, tokenFile.refresh_token) = Get(body, "refresh_token", "")
        /\ tokenFile.token_type = Get(body, "token_type", "Bearer")
        /\ tokenFile.created_at = IsoFormat(now)
        /\ "expires_in" \in DOMAIN body =>
               tokenFile.expires_at = IsoFormat(now + body.expires_in)

C9_Witness ==
    /\ Returned("get_valid_access_token")
    /\ ret.refreshed
    /\ RefreshSucceeded(ret.outcome, ret.fault)
    /\ ret.outcome.latency > 0
    /\ "expires_in" \in DOMAIN ret.outcome.body
    /\ ret.result = "a1"
    /\ tokenFile.expires_at = IsoFormat(now + 301)

(* C10: refresh_tokens never raises: after every non-success outcome of the
   refresh call (non-200 status, success false, network error, malformed
   body, failure while saving) get_valid_access_token returns absence, not
   the expired token, and nothing is raised. *)
C10_RefreshFailureIsAbsence ==
    (/\ Returned("get_valid_access_token")
     /\ ret.refreshed
     /\ ~RefreshSucceeded(ret.outcome, ret.fault)) =>
        /\ ret.result = None
        /\ ~ret.raised

C10_Witness ==
    /\ Returned("get_valid_access_token")
    /\ ret.refreshed
    /\ ret.fault = "write"
    /\ ret.result = None
    /\ tokenFile = PartialFile

----------------------------------------------------------------------------
(* Properties of the parts of the API Access Layer *)

(* the position of the last call among the calls of the current window *)
CallsInWindow == Cardinality({i \in DOMAIN callLog : callLog[i] >= request_window_start})

(* C3: fixed-window rate limiter with ceiling N: the first N calls made
   while now - window_start < 60s are admitted and the (N+1)-th is rejected;
   the first call made once now - window_start >= 60s resets the counter,
   restarts the window at now and is admitted. *)
C3_FixedWindow ==
    Returned("_check_rate_limit") =>
        /\ ret.admitted <=> CallsInWindow <= MAX_REQUESTS_PER_MINUTE
        /\ request_count = IF ret.admitted THEN CallsInWindow
                           ELSE MAX_REQUESTS_PER_MINUTE
        /\ request_window_start =
               IF ret.at - ret.before >= 60 THEN ret.at ELSE ret.before
        /\ ret.at - ret.before >= 60 => (ret.admitted /\ request_count = 1)

C3_Witness ==
    /\ Returned("_check_rate_limit")
    /\ ret.at - ret.before >= 60
    /\ ret.admitted
    /\ \E i \in DOMAIN callLog : callLog[i] < request_window_start
    /\ Len(callLog) = MAX_REQUESTS_PER_MINUTE + 2

(* C4: _get_from_cache returns the payload stored by _save_to_cache only
   while the entry is younger than 300 seconds; a lookup at age 300 or more
   returns absence and removes the entry, so no stale payload is returned. *)
C4_CacheTTL ==
    Returned("_get_from_cache") =>
        LET k == ret.key IN
        IF k \in DOMAIN stored /\ now - stored[k].at < 300
        THEN ret.result = [data |-> stored[k].data] /\ k \in DOMAIN cache
        ELSE IsNone(ret.result) /\ k \notin DOMAIN cache

C4_Witness ==
    /\ Returned("_get_from_cache")
    /\ ret.key \in DOMAIN stored
    /\ now - stored[ret.key].at = 300
    /\ IsNone(ret.result)
    /\ ret.key \notin DOMAIN cache

SamePairs(p, q) == {p[i] : i \in DOMAIN p} = {q[i] : i \in DOMAIN q}

(* C6: cache key determinism: for one endpoint, two parameter sets holding
   the same name/value pairs in different insertion order give the same
   cache key. *)
C6_KeyDeterminism ==
    (Returned("_get_cache_key") /\ SamePairs(ret.p, ret.q)) => ret.key_p = ret.key_q

C6_Witness ==
    /\ Returned("_get_cache_key")
    /\ SamePairs(ret.p, ret.q)
    /\ ret.p # ret.q
    /\ ret.p = << <<"limit", "5">>, <<"start", "2024-01-01">> >>
    /\ ret.key_p = ret.key_q

----------------------------------------------------------------------------
(* Properties of the request pipeline *)

Sent == Returned("_make_request") /\ ret.step = "send"

Received == Returned("_make_request") /\ ret.step = "receive"

(* C2: when the upstream GET of _make_request answers 401, the stored
   credential record is deleted and the call fails with the authentication
   failure; until new credentials are saved every get_valid_access_token
   call returns absence, so a read operation that misses the cache fails as
   unauthenticated and issues no HTTP call. *)
C2_Unauthorized ==
    /\ (Received /\ ret.response.kind = "response" /\ ret.response.status = 401) =>
           /\ tokenFile = NoFile
           /\ ret.result = Raise(AuthenticationFailed)
    /\ authCleared =>
           \A outcome \in RefreshOutcomes, fault \in SaveFaults :
               get_valid_access_token(mgrKey["server"], outcome, fault,
                                      tokenFile, now).result = None
    /\ (authCleared /\ Sent /\ ret.admitted /\ ret.phase # "returned") =>
           /\ ret.result = Raise(NoValidAccessToken)
           /\ ret.phase = "raised"
           /\ pending[ret.slot] = Idle

C2_Witness ==
    /\ authCleared
    /\ Sent
    /\ ret.admitted
    /\ ret.looked
    /\ ret.result = Raise(NoValidAccessToken)
    /\ pending[ret.slot] = Idle
    /\ cache # EmptyDict

(* C5: after _make_request received a 200 response for an endpoint and
   parameter set, every later admitted _make_request for the same endpoint
   and parameters made less than 300 seconds later and before clear_cache
   returns that payload and issues no upstream HTTP call, whatever payload
   the upstream returned. *)
C5_ServedFromCache ==
    (/\ Sent
     /\ ret.admitted
     /\ ret.cache_key \in DOMAIN stored
     /\ ret.called - stored[ret.cache_key].at < CACHE_DURATION) =>
        /\ ret.phase = "returned"
        /\ ret.result = Return(stored[ret.cache_key].data)
        /\ pending[ret.slot] = Idle

(* the read operation of the step looked up a key the cache held no fresh
   entry for *)
MissesCache == IsNone(get_from_cache(cache, ret'.cache_key, now).result)

(* the cache after the step holds nothing the cache before it did not *)
NoCacheWrite == \A k \in DOMAIN cache' : k \in DOMAIN cache /\ cache'[k] = cache[k]

C11_Step ==
    (/\ Sent'
     /\ ret'.admitted
     /\ MissesCache
     /\ get_valid_access_token(mgrKey["server"], ret'.outcome, ret'.fault,
                               tokenFile, now).result = None) =>
        /\ ret'.result = Raise(NoValidAccessToken)
        /\ ret'.phase = "raised"
        /\ pending' = pending
        /\ NoCacheWrite

(* C11: when the Token Store yields no valid access token, an admitted
   _make_request that misses the cache fails with 'No valid access token
   available', issues no upstream HTTP call and writes no cache entry. *)
C11_Unauthenticated == [][C11_Step]_vars

C11_Witness ==
    /\ Sent
    /\ ret.admitted
    /\ ret.looked
    /\ ret.refreshed
    /\ ~authCleared
    /\ ret.result = Raise(NoValidAccessToken)
    /\ pending[ret.slot] = Idle

C12_Step ==
    LET rec == load_tokens(mgrKey["server"], tokenFile) IN
    (/\ Sent'
     /\ ret'.admitted
     /\ MissesCache
     /\ ~IsNone(rec)
     /\ Parses(rec.expires_at)
     /\ FromIsoFormat(rec.expires_at) - now > BUFFER_SECONDS) =>
        /\ ret'.phase = "awaiting"
        /\ pending'[ret'.slot].pc = "awaiting"
        /\ pending'[ret'.slot].Authorization = <<"Bearer ", rec.access_token>>
        /\ ~ret'.refreshed
        /\ tokenFile' = tokenFile

(* C12: when the stored record is not expired, a read operation that misses
   the cache issues its GET with the Authorization header 'Bearer ' followed
   by the stored access token, makes no refresh call and leaves the
   persisted record unchanged. *)
C12_StoredTokenUsed == [][C12_Step]_vars

C12_Witness ==
    /\ Sent
    /\ ret.admitted
    /\ ret.phase = "awaiting"
    /\ ~ret.refreshed
    /\ pending[ret.slot].Authorization = <<"Bearer ", "a1">>
    /\ load_tokens(mgrKey["server"], tokenFile).access_token = "a1"

----------------------------------------------------------------------------
(* Properties of the Token Store without credentials, and of its summary *)

(* C13: when no credential file exists (never saved, or deleted by
   clear_tokens), load_tokens returns absence without raising,
   get_valid_access_token returns absence without attempting a refresh, and
   get_auth_status returns status 'no_tokens'. *)
C13_NoCredentialFile ==
    tokenFile = NoFile =>
        /\ Returned("load_tokens") => (IsNone(ret.result) /\ ~ret.raised)
        /\ Returned("get_valid_access_token") =>
               (ret.result = None /\ ~ret.refreshed /\ ~ret.raised)
        /\ Returned("get_auth_status") =>
               (~ret.raised /\ ret.result = [status |-> "no_tokens"])

C13_Witness ==
    /\ tokenFile = NoFile
    /\ keyFile # NoKeyFile
    /\ now > 0
    /\ Returned("get_auth_status")
    /\ ret.result = [status |-> "no_tokens"]

(* other token values a store could hold, and the credential file that
   differs from file only in them *)
OtherAccessTokens == {"a1", "a2", "a3"}

OtherRefreshTokens == {"r1", "r2"}

Retoken(file, key, a, r) ==
    [file EXCEPT !.access_token = Encrypt(key, a), !.refresh_token = Encrypt(key, r)]

SummaryKeys == {"status", "expires_at", "created_at", "token_type", "has_refresh_token"}

(* C14: get_token_info is a non-sensitive projection: its status is one of
   no_tokens, valid, expired; no field holds the access token or the refresh
   token; two stores that differ only in the token values (refresh tokens
   non-empty) give the same summary. *)
C14_NonSensitiveSummary ==
    Returned("get_auth_status") =>
        LET key == mgrKey[ret.mgr]
            rec == load_tokens(key, tokenFile)
        IN
        /\ ~ret.raised
        /\ ret.result.status \in {"no_tokens", "valid", "expired"}
        /\ DOMAIN ret.result \subseteq SummaryKeys
        /\ ~IsNone(rec) =>
               /\ DOMAIN ret.result = SummaryKeys
               /\ ret.result.status \notin {rec.access_token, rec.refresh_token}
               /\ ret.result.token_type \notin {rec.access_token, rec.refresh_token}
               /\ ret.result.has_refresh_token \in BOOLEAN
               /\ Parses(ret.result.expires_at)
               /\ Parses(ret.result.created_at)
               /\ rec.refresh_token # "" =>
                      \A a \in OtherAccessTokens, r \in OtherRefreshTokens :
                          get_token_info(key, Retoken(tokenFile, key, a, r), now).info
                              = ret.result

C14_Witness ==
    /\ Returned("get_auth_status")
    /\ ret.result.status = "valid"
    /\ ret.result.has_refresh_token
    /\ load_tokens(mgrKey[ret.mgr], tokenFile).access_token = "a1"
    /\ get_token_info(mgrKey[ret.mgr], Retoken(tokenFile, mgrKey[ret.mgr], "a3", "r2"),
                      now).info = ret.result

(* the credential file exists and the manager's key cannot recover a record
   from it: it was truncated by an interrupted write, or a field does not
   decrypt under the key *)
Undecryptable(key, file) ==
    /\ file # NoFile
    /\ \/ file.fmt = "partial"
       \/ /\ file.fmt = "fernet"
          /\ file.key # key
       \/ /\ file.fmt = "json"
          /\ \/ Decrypt(key, file.access_token) = DecryptFailed
             \/ Decrypt(key, file.refresh_token) = DecryptFailed

(* C15: when the credential file exists but cannot be decrypted with the
   current key (key replaced or file corrupted), load_tokens fails with a
   decryption error reported to its caller, distinguishable from the
   absence returned when there is no file. *)
C15_DecryptionErrorReported ==
    (Returned("load_tokens") /\ Undecryptable(mgrKey[ret.mgr], tokenFile)) =>
        /\ ret.raised
        /\ [result |-> ret.result, raised |-> ret.raised]
               # load_tokens_call(mgrKey[ret.mgr], NoFile)

----------------------------------------------------------------------------
(* Properties of the upstream failures *)

(* the failure _make_request raises for the same response with another
   non-2xx status *)
GenericFailure(response, status) ==
    make_request_receive(ret.cache_key, [response EXCEPT !.status = status],
                         cache, tokenFile, now).result

(* C16: an upstream 429 makes _make_request fail with a rate-limit failure,
   a kind distinct from the generic upstream error raised for the other
   non-2xx statuses, whatever the response body contains. *)
C16_Upstream429 ==
    (Received /\ ret.response.kind = "response" /\ ret.response.status = 429) =>
        /\ ret.result.kind = "error"
        /\ ret.result.message # GenericFailure(ret.response, 500).message
        /\ ret.result.message # ApiRequestFailed

----------------------------------------------------------------------------
(* Properties of the credential file *)

C17_Step ==
    Returned("save_tokens")' =>
        LET complete == "access_token" \in DOMAIN ret'.tokens
            written == IF complete
                       THEN {token_data(mgrKey[ret'.mgr], ret'.tokens, now)}
                       ELSE {}
        IN
        /\ tokenFile' \in {tokenFile} \cup written
        /\ tokenFile' \notin written => ret'.raised

(* C17: save_tokens persists atomically: after a save that fails or is
   interrupted at any step the credential file holds either the complete
   previous record or the complete new record, never an empty or partially
   written one, and the failure is raised to the caller. *)
C17_AtomicSave == [][C17_Step]_vars

C19_Step ==
    Returned("clear_tokens")' =>
        /\ ~ret'.raised
        /\ tokenFile' = NoFile
        /\ clear_tokens(tokenFile') = tokenFile'
        /\ ~ret'.existed => tokenFile' = tokenFile
        /\ UNCHANGED <<keyFile, mgrKey, now>>

(* C19: clear_tokens is idempotent and never raises: after it the credential
   file does not exist, whether or not it existed before; a second
   clear_tokens leaves the state unchanged; the encryption key file is left
   untouched. *)
C19_ClearIdempotent == [][C19_Step]_vars

C19_Witness ==
    /\ Returned("clear_tokens")
    /\ ret.existed
    /\ tokenFile = NoFile
    /\ keyFile \in Keys

----------------------------------------------------------------------------
(* Properties of the upstream calls *)

(* the upstream GETs issued by the step: the coroutines it leaves suspended
   at a GET they were not suspended at before *)
GetsIssued ==
    Cardinality({i \in Slots :
                    /\ pending'[i].pc = "awaiting"
                    /\ \/ pending[i].pc # "awaiting"
                       \/ Received' /\ ret'.slot = i})

C20_Step ==
    /\ Sent' => GetsIssued <= 1
    /\ Sent' /\ ret'.phase # "awaiting" => GetsIssued = 0
    /\ Received' => GetsIssued = 0

(* C20: no automatic retry: one call of _make_request issues at most one
   upstream GET, whatever the response: 200, 401, 429, another status, a
   timeout or a transport failure. *)
C20_NoRetry == [][C20_Step]_vars

C20_Witness ==
    /\ Received
    /\ ret.response.kind = "response"
    /\ ret.response.status = 401
    /\ pending[ret.slot] = Idle
    /\ Len(callLog) = 1

----------------------------------------------------------------------------
(* Properties of the file permissions *)

(* C18: in every reachable state in which the credential file or the
   encryption-key file exists with content, that file's permissions are owner
   read/write only, also between writing the file and restricting its
   permissions on first creation. *)
C18_OwnerOnly ==
    /\ keyFile # NoKeyFile => keyMode = OWNER_ONLY
    /\ (tokenFile # NoFile /\ tokenFile # PartialFile) => tokenMode = OWNER_ONLY

----------------------------------------------------------------------------
(* Properties of the tool handlers *)

(* C21: every tool handler returns an envelope with the tool name, a
   timestamp and exactly one of data or error: data and no error when the
   client operation succeeds, the failure's message in error and no data
   when it raises a failure; no exception escapes the handler. *)
C21_Envelope ==
    (Returned("tool") /\ ret.outcome # Raise(CancelledError)) =>
        /\ ~ret.raised
        /\ ret.envelope.tool = ret.tool
        /\ ret.envelope.timestamp = IsoFormat(ret.at)
        /\ ret.outcome.kind = "data" =>
               /\ DOMAIN ret.envelope = {"tool", "data", "timestamp"}
               /\ ret.envelope.data = ret.outcome.data
        /\ ret.outcome.kind = "error" =>
               /\ DOMAIN ret.envelope = {"tool", "error", "timestamp"}
               /\ ret.envelope.error = Str(ret.outcome)

----------------------------------------------------------------------------
(* Properties of concurrent read operations *)

(* C22: every read operation eventually completes: under fairness of the
   upstream (it answers or the 30-second timeout fires) each started
   _make_request, including one that triggered a token refresh, eventually
   returns a payload or fails; none waits forever. *)
C22_Completes ==
    \A i \in Slots : (pending[i].pc = "awaiting") ~> (pending[i].pc = "idle")

(* the only operation started so far refreshed the token (the refresh
   response was saved), and its GET timed out *)
C22_Witness ==
    /\ Received
    /\ Len(callLog) = 1
    /\ ~IsNone(lastSaved)
    /\ lastSaved.tokens.access_token = "a1"
    /\ ret.response.kind = "timeout"
    /\ ret.result = Raise(RequestTimedOut)
    /\ pending[ret.slot] = Idle

C23_Step ==
    (/\ Sent'
     /\ ret'.admitted
     /\ MissesCache
     /\ NeedsRefresh(mgrKey["server"], tokenFile, now)) =>
        /\ ret'.refreshed
        /\ ret'.phase = "awaiting" => pending'[ret'.slot].refreshed

(* C23: token refresh is not mutually excluded: a read operation that finds
   the stored token expired issues a refresh call whatever the other
   operations in flight have done, so there is an execution in which two
   operations in flight at once have both observed an expired token and both
   issued a refresh call. *)
C23_RefreshNotExcluded == [][C23_Step]_vars

C23_Witness ==
    /\ Sent
    /\ ret.refreshed
    /\ ret.phase = "awaiting"
    /\ \E i \in Slots :
          /\ i # ret.slot
          /\ pending[i].pc = "awaiting"
          /\ pending[i].refreshed
          /\ pending[ret.slot].refreshed

(* the calls admitted since the rate window was last reset *)
AdmittedInWindow ==
    Cardinality({i \in DOMAIN admittedLog : admittedLog[i] >= request_window_start})

(* C24: under every interleaving of concurrent read operations that suspend
   only at the upstream await, the rate-limit check-and-increment is atomic:
   0 <= request_count <= ceiling in every reachable state, and the requests
   admitted between two consecutive window resets never exceed the ceiling. *)
C24_RateLimitAtomic ==
    /\ request_count \in 0..MAX_REQUESTS_PER_MINUTE
    /\ AdmittedInWindow <= MAX_REQUESTS_PER_MINUTE

C24_Witness ==
    /\ Sent
    /\ ~ret.admitted
    /\ request_count = MAX_REQUESTS_PER_MINUTE
    /\ AdmittedInWindow = MAX_REQUESTS_PER_MINUTE
    /\ \E i \in Slots : pending[i].pc = "awaiting"

(* C28: concurrent read operations on one client do not interfere: under
   every interleaving each caller receives the payload returned for its own
   endpoint and parameters, and each cache entry written holds the payload
   of its own key. *)
C28_NoInterference ==
    /\ (Returned("_make_request") /\ ret.result.kind = "data") =>
           ret.result.data = PayloadOf(ret.endpoint, ret.params)
    /\ \A k \in DOMAIN cache :
           \E req \in ConcurrentRequests :
               /\ k = get_cache_key(req.endpoint, req.params)
               /\ cache[k].data = PayloadOf(req.endpoint, req.params)

C28_Witness ==
    /\ Received
    /\ ret.slot = 2
    /\ ret.endpoint = "/recovery"
    /\ ret.result = Return(PayloadOf("/recovery", ret.params))
    /\ pending[1].pc = "awaiting"
    /\ pending[1].endpoint = "/activity/workout"
    /\ pending[1].params = ret.params
    /\ get_cache_key("/user/profile/basic", <<>>) \in DOMAIN cache

----------------------------------------------------------------------------
(* Properties of the pipeline's order and of its effects on failure *)

(* the GET answered 200 with a JSON body *)
Ok(response) == response.kind = "response" /\ response.status = 200 /\ response.json

Rejected401(response) == response.kind = "response" /\ response.status = 401

(* C25: the cache is written only by a 200 response: a request that ends in
   timeout, cancellation, 401, 429, another non-2xx status, a transport
   failure or an unauthenticated failure adds no cache entry and changes no
   existing entry, so every cache entry holds the complete payload of a 200
   response for its own key. *)
C25_CacheOnly200 ==
    /\ \A k \in DOMAIN cache :
           /\ k \in DOMAIN stored
           /\ cache[k] = [data |-> stored[k].data,
                          cached_at |-> IsoFormat(stored[k].at)]
    /\ (Received /\ ~Ok(ret.response)) => ret.result.kind = "error"

C25_Witness ==
    /\ Received
    /\ ret.response.kind = "cancelled"
    /\ ret.result = Raise(CancelledError)
    /\ ret.cache_key \in DOMAIN cache
    /\ cache[ret.cache_key].data = <<>>
    /\ Cardinality(DOMAIN cache) = 1

(* the ceiling is reached in the current window *)
CeilingReached ==
    /\ request_count >= MAX_REQUESTS_PER_MINUTE
    /\ now - request_window_start < WINDOW_SECONDS

C26_Step ==
    (Sent' /\ CeilingReached) =>
        /\ ~ret'.admitted
        /\ ret'.result = Raise(RateLimitExceeded)
        /\ ret'.phase = "raised"
        /\ ~ret'.looked
        /\ ~ret'.refreshed
        /\ UNCHANGED <<cache, tokenFile, pending, request_count, now>>

(* C26: the local rate-limit check is the first pipeline step and rejects
   without queueing: with the ceiling reached in the current window
   _make_request fails at once with the rate-limit failure, does not look up
   the cache (a fresh cached payload is not returned), acquires no token,
   issues no HTTP call and leaves request_count unchanged. *)
C26_RateCheckFirst == [][C26_Step]_vars

C26_Witness ==
    /\ Sent
    /\ ~ret.admitted
    /\ ret.result = Raise(RateLimitExceeded)
    /\ Truthy(get_from_cache(cache, ret.cache_key, now).result)
    /\ request_count = MAX_REQUESTS_PER_MINUTE

C27_Step ==
    /\ (/\ Sent'
        /\ ret'.admitted
        /\ ~IsNone(get_from_cache(cache, ret'.cache_key, now).result)) =>
           /\ ret'.phase = "returned"
           /\ ret'.result = Return(cache[ret'.cache_key].data)
           /\ ~ret'.refreshed
           /\ UNCHANGED <<tokenFile, pending>>
    /\ (Received' /\ Rejected401(ret'.response)) => cache' = cache

(* C27: cache lookup precedes token acquisition: an admitted request that
   hits a fresh cache entry returns the cached payload without asking the
   Token Store for a token and without an HTTP call, so it succeeds even
   when no usable credentials are stored (for example after a 401 cleared
   them), and the cache is not emptied by credential clearing. *)
C27_CacheBeforeToken == [][C27_Step]_vars

(* C29: upstream failure classification: a timed-out GET fails with the
   request-timeout failure, and a response with a status other than 200, 401
   and 429 fails with an upstream error that carries the status code and the
   response body; in neither case is a payload returned. *)
C29_FailureClassification ==
    /\ (Received /\ ret.response.kind = "timeout") =>
           ret.result = Raise(RequestTimedOut)
    /\ (Received /\ ret.response.kind = "response"
                 /\ ret.response.status \notin {200, 401, 429}) =>
           /\ ret.result.kind = "error"
           /\ ret.result.message = ApiRequestFailed
           /\ ret.result.status = ret.response.status
           /\ ret.result.text = ret.response.body
    /\ (Received /\ ret.response.kind = "timeout") => pending[ret.slot] = Idle

C29_Witness ==
    /\ Received
    /\ ret.response.kind = "response"
    /\ ret.response.status = 500
    /\ ret.result = RaiseStatus(500, <<"text">>)
    /\ pending[ret.slot] = Idle

C30_Step ==
    /\ (tokenFile # NoFile /\ tokenFile' = NoFile) =>
           \/ Received' /\ Rejected401(ret'.response)
           \/ Returned("clear_tokens")'
    /\ (Received' /\ ~Rejected401(ret'.response) /\ ~Ok(ret'.response)) =>
           tokenFile' = tokenFile
    /\ (Sent' /\ ~ret'.admitted) => tokenFile' = tokenFile

(* C30: stored credentials are deleted only by an explicit clear_tokens call
   or by an upstream 401: a request ending in timeout, 429, another non-2xx
   status, a transport failure or a local rate-limit rejection leaves the
   persisted credential record unchanged. *)
C30_DeletedOnlyBy401 == [][C30_Step]_vars

C30_Witness ==
    /\ Received
    /\ ret.response.kind = "response"
    /\ ret.response.status = 429
    /\ tokenFile # NoFile
    /\ load_tokens(mgrKey["server"], tokenFile).access_token = "a1"

----------------------------------------------------------------------------
(* C31: a refresh that fails because the endpoint answered with a status
   other than 200, answered 200 with success false, or could not be reached
   leaves the credential file as it was: the call returns absence, the
   record the manager loads (access token, refresh token, expires_at) is the
   one it loaded before, and that record still needs a refresh, so the next
   get_valid_access_token calls the endpoint again with the same refresh
   token. *)
RefusedRefresh(outcome) ==
    \/ outcome.kind = "exception"
    \/ outcome.kind = "response" /\ outcome.status # 200
    \/ /\ outcome.kind = "response" /\ outcome.status = 200
       /\ "success" \in DOMAIN outcome.body /\ ~outcome.body.success

FailedRefresh(r) ==
    /\ r.op = "get_valid_access_token"
    /\ r.refreshed
    /\ RefusedRefresh(r.outcome)

C31_Step ==
    LET key == mgrKey["server"]
        before == load_tokens(key, tokenFile)
        after == load_tokens(key, tokenFile')
    IN  /\ FailedRefresh(ret') =>
            /\ ret'.result = None
            /\ ~ret'.raised
            /\ tokenFile' = tokenFile
            /\ tokenMode' = tokenMode
            /\ ~IsNone(after)
            /\ after.access_token = before.access_token
            /\ after.refresh_token = before.refresh_token
            /\ after.expires_at = before.expires_at
            /\ NeedsRefresh(key, tokenFile', now')
        /\ (FailedRefresh(ret) /\ ret'.op = "get_valid_access_token") =>
            /\ ret'.refreshed
            /\ ret'.sent = ret.sent

C31_FailedRefreshKeepsRecord == [][C31_Step]_vars

C31_Witness ==
    /\ FailedRefresh(ret)
    /\ ret.outcome.kind = "response"
    /\ ret.outcome.status = 200
    /\ ret.result = None
    /\ ~IsNone(load_tokens(mgrKey["server"], tokenFile))
    /\ ret.sent = "r1"
    /\ now > ret.called

----------------------------------------------------------------------------
(* C32: the status summary and the expiry check agree on the stored record
   at the instant of the call: get_token_info reports "valid" exactly when
   is_token_expired is false for the record load_tokens returns, so
   get_valid_access_token at that instant would return the record's access
   token without calling the refresh endpoint. *)
C32_StatusAgrees ==
    LET key == mgrKey["server"]
        tokens == load_tokens(key, tokenFile)
    IN  (ret.op = "get_auth_status" /\ ~ret.raised /\ ~IsNone(tokens)) =>
            /\ (ret.result.status = "valid") <=> ~is_token_expired(tokens, ret.at)
            /\ ret.result.status = "valid" => ~NeedsRefresh(key, tokenFile, ret.at)

----------------------------------------------------------------------------
(* C33: request_count counts the admitted calls of _make_request, whatever
   becomes of them: in every reachable state it equals the number of calls
   admitted since the window start, and a call that was admitted and then
   served from the cache, or admitted and then failed for want of a
   credential, is among the calls counted. *)
C33_CountsAdmitted ==
    /\ request_count = AdmittedInWindow
    /\ (Sent /\ ret.admitted) =>
            /\ request_count >= 1
            /\ request_window_start <= ret.called
            /\ admittedLog[Len(admittedLog)] = ret.called
    /\ (Sent /\ ~ret.admitted) =>
            /\ request_count = MAX_REQUESTS_PER_MINUTE
            /\ Len(admittedLog) >= MAX_REQUESTS_PER_MINUTE

C33_Witness ==
    /\ Sent
    /\ ret.admitted
    /\ ret.result = Raise(NoValidAccessToken)
    /\ request_count = 2
    /\ cache # EmptyDict
    /\ Len(admittedLog) > request_count

----------------------------------------------------------------------------
(* Overlapping read operations whose upstream data changes between two GETs *)

(* what a GET can do when the upstream's data has versions: 200 with either
   version, 401, or the timeout fires *)
VersionedResponses ==
    [kind : {"response"}, status : {200}, json : {TRUE}, body : {<<"x">>, <<"y">>}]
    \cup { [kind |-> "response", status |-> 401, json |-> FALSE, body |-> <<"text">>],
           [kind |-> "timeout"] }

(* a read operation starts, as the coroutine of the first free slot *)
StartOverlapping(i) ==
    /\ \A j \in Slots : j < i => pending[j] # Idle
    /\ StartRequestFor(i, Requests, PipelineOutcomes, {"none"})

RespondOverlapping(i) == RespondOf(i, VersionedResponses)

NextOverlap ==
    \/ \E i \in Slots : StartOverlapping(i)
    \/ \E i \in Slots : RespondOverlapping(i)
    \/ TickConcurrent

SpecOverlap == InitConcurrent /\ [][NextOverlap]_vars

----------------------------------------------------------------------------
(* C34: cache misses are not deduplicated.  A request that is admitted, finds
   no usable cache entry and has a credential suspends at its own upstream
   GET also when another request for the same key is already suspended at
   one, and a request returns at once only with the data of the cache entry.
   Every GET answered 200 with a JSON body writes the entry of its key, so
   after two such requests have completed the entry holds the payload and
   the cached_at of the response that completed last. *)
InFlight(k) == {i \in Slots : pending[i] # Idle /\ pending[i].cache_key = k}

C34_NoDeduplication ==
    /\ (Sent /\ ret.admitted /\ ret.result # Raise(NoValidAccessToken)) =>
            IF ret.phase = "returned"
            THEN /\ ret.cache_key \in DOMAIN cache
                 /\ ret.result = Return(cache[ret.cache_key].data)
            ELSE /\ ret.phase = "awaiting"
                 /\ ret.slot \in InFlight(ret.cache_key)
    /\ (Received /\ Ok(ret.response)) =>
            cache[ret.cache_key] =
                [data |-> ret.response.body, cached_at |-> IsoFormat(now)]

C34_Witness ==
    /\ Received
    /\ Ok(ret.response)
    /\ ret.response.body = <<"y">>
    /\ callLog = <<0, 0>>
    /\ now > 0
    /\ ret.replaced = [data |-> <<"x">>, cached_at |-> IsoFormat(0)]
    /\ cache[ret.cache_key] = [data |-> <<"y">>, cached_at |-> IsoFormat(now)]
    /\ \A i \in Slots : pending[i] = Idle

----------------------------------------------------------------------------
(* A server started on a credential file it did not write: a JSON envelope
   whose expires_at text may not parse, or a whole-file ciphertext holding
   any JSON object, with expires_at, with timestamp and expires_in instead,
   or with neither *)
StoredRecords ==
    { [access_token |-> "a1", refresh_token |-> "r1", token_type |-> "Bearer",
       expires_at |-> IsoFormat(3600), created_at |-> IsoFormat(0)],
      [access_token |-> "a1", refresh_token |-> "r1", token_type |-> "Bearer",
       expires_at |-> Unparseable, created_at |-> IsoFormat(0)],
      [access_token |-> "a1", refresh_token |-> "r1", timestamp |-> 0,
       expires_in |-> 3600],
      [access_token |-> "a1", refresh_token |-> ""] }

StoredFiles ==
    { [fmt |-> "fernet", key |-> "k1", tokens |-> tokens] : tokens \in StoredRecords }
    \cup { [token_data("k1", SetupTokens, 0) EXCEPT !.expires_at = e] :
               e \in {IsoFormat(3600), Unparseable} }

InitStored ==
    /\ now = 0
    /\ ticks = 0
    /\ keyFile = "k1"
    /\ tokenFile \in StoredFiles
    /\ mgrKey = [m \in Managers |-> "k1"]
    /\ ret = NoRet
    /\ lastSaved = NoTokens
    /\ cache = EmptyDict
    /\ request_count = 0
    /\ request_window_start = 0
    /\ callLog = <<>>
    /\ admittedLog = <<>>
    /\ stored = EmptyDict
    /\ pending = [i \in Slots |-> Idle]
    /\ authCleared = FALSE
    /\ keyMode = OWNER_ONLY
    /\ tokenMode = OWNER_ONLY

NextStored ==
    \/ LoadTokens("server")
    \/ IsTokenExpired("server")
    \/ GetValidAccessToken("server")
    \/ GetAuthStatus("server")
    \/ TickToken

SpecStored == InitStored /\ [][NextStored]_vars

----------------------------------------------------------------------------
(* C35: the expiry check fails closed.  For a loaded record whose expires_at
   is missing or does not parse, is_token_expired returns true, and
   get_valid_access_token calls the refresh endpoint with the record's
   refresh token: what it returns is absence or the access token of the
   refresh response, never the stored access token taken as valid. *)
NoReadableExpiry(tokens) ==
    "expires_at" \notin DOMAIN tokens \/ ~Parses(tokens.expires_at)

C35_Step ==
    LET tokens == load_tokens(mgrKey["server"], tokenFile) IN
    (~IsNone(tokens) /\ NoReadableExpiry(tokens)) =>
        /\ ret'.op = "is_token_expired" => ret'.result
        /\ ret'.op = "get_valid_access_token" =>
            /\ ret'.refreshed
            /\ ret'.sent = tokens.refresh_token
            /\ ~ret'.raised
            /\ ret'.result # None =>
                   /\ RefreshSucceeded(ret'.outcome, ret'.fault)
                   /\ ret'.result = ret'.outcome.body.access_token

C35_FailsClosed == [][C35_Step]_vars

C35_Witness ==
    /\ Returned("get_valid_access_token")
    /\ ret.refreshed
    /\ ret.result = None
    /\ tokenFile.fmt = "fernet"
    /\ "expires_at" \notin DOMAIN tokenFile.tokens
    /\ "timestamp" \in DOMAIN tokenFile.tokens
    /\ ret.sent = tokenFile.tokens.refresh_token
    /\ now > 0

====
